---- MODULE Spec2Model ----
(***************************************************************************)
(* Kanban board service (octaview/kanban): the relational state (users,    *)
(* boards, board_shares, columns, tasks, labels, task_labels) and the HTTP *)
(* handlers that read                                                      *)
(* and write it through the repositories.  One action per handler; the     *)
(* variable `last` holds the response of the request served last.          *)
(***************************************************************************)
EXTENDS Integers, FiniteSets, Sequences, TLC

VARIABLES users, boards, shares, columns, tasks, labels, task_labels,
          last, reqs

vars == <<users, boards, shares, columns, tasks, labels, task_labels,
         last, reqs>>

(***************************************************************************)
(* Bounds of the model.                                                    *)
(***************************************************************************)
MaxUsers == 2
MaxBoards == 1
MaxBoardsCap == 6
MaxInFlight == 2
MaxColumns == 3
MaxTasks == 3
MaxPos == 2
PosCap == 3
MaxLabels == 2

(***************************************************************************)
(* Program constants.                                                      *)
(***************************************************************************)
MaxBoardsPerUser == 5
RoleViewer == "viewer"
RoleEditor == "editor"

StatusOK == 200
StatusCreated == 201
StatusBadRequest == 400
StatusUnauthorized == 401
StatusForbidden == 403
StatusNotFound == 404
StatusConflict == 409
StatusInternalServerError == 500

(***************************************************************************)
(* Identifiers.  0 stands for "no row" (a nil pointer, uuid.Nil).          *)
(* A user's e-mail address is modelled by the user's identifier: the       *)
(* users table has one row per e-mail (UNIQUE).                            *)
(***************************************************************************)
Nil == 0
UserIds == 1..MaxUsers
BoardIds == 1..MaxBoardsCap
Roles == {RoleViewer, RoleEditor}
RequestRoles == Roles \cup {"admin"}
Titles == {"", "a"}
ColumnIds == 1..MaxColumns
TaskIds == 1..MaxTasks
Positions == 0..MaxPos
LabelIds == 1..MaxLabels

(***************************************************************************)
(* BoardRepository                                                         *)
(***************************************************************************)
NoBoard == [id |-> Nil, owner_id |-> Nil, title |-> ""]

GetByID(boardID) ==
    IF \E b \in boards : b.id = boardID
    THEN CHOOSE b \in boards : b.id = boardID
    ELSE NoBoard

CountOwned(ownerID) ==
    Cardinality({b \in boards : b.owner_id = ownerID})

NewBoardID == Cardinality(boards) + 1

(***************************************************************************)
(* UserRepository.FindByEmail: (user, err).  On a failed lookup the code   *)
(* returns the address of the zero-valued local together with the error.   *)
(***************************************************************************)
ZeroUser == -1

FindByEmail(email, fail) ==
    IF fail THEN [user |-> ZeroUser, err |-> TRUE]
    ELSE IF email \in users THEN [user |-> email, err |-> FALSE]
    ELSE [user |-> Nil, err |-> FALSE]

(***************************************************************************)
(* BoardShareRepository.  A board_shares row is identified by its primary  *)
(* key; the key of a new row is fresh among the rows of its (board, user)  *)
(* pair, which is all that tells two rows of one pair apart.               *)
(***************************************************************************)
SharesOf(boardID, userID) ==
    {s \in shares : s.board_id = boardID /\ s.user_id = userID}

RowCount(boardID, userID) == Cardinality(SharesOf(boardID, userID))

\* First(&share): the row with the least primary key.
FirstShare(boardID, userID) ==
    CHOOSE s \in SharesOf(boardID, userID) :
        \A t \in SharesOf(boardID, userID) : s.id <= t.id

\* CheckAccess returns (bool, error); fail = 1 (2) makes the first (second)
\* query fail.
CheckAccessNoOwner(boardID, userID, requiredRole, fail) ==
    IF fail = 2 THEN [ok |-> FALSE, err |-> TRUE]
    ELSE IF SharesOf(boardID, userID) = {} THEN [ok |-> FALSE, err |-> FALSE]
    ELSE IF requiredRole = RoleViewer THEN [ok |-> TRUE, err |-> FALSE]
    ELSE [ok |-> FirstShare(boardID, userID).role = RoleEditor, err |-> FALSE]

CheckAccessSwapped(boardID, userID, requiredRole, fail) ==
    IF fail = 1 THEN [ok |-> FALSE, err |-> TRUE]
    ELSE IF \E b \in boards : b.id = boardID /\ b.owner_id = userID
    THEN [ok |-> TRUE, err |-> FALSE]
    ELSE IF fail = 2 THEN [ok |-> FALSE, err |-> TRUE]
    ELSE IF SharesOf(boardID, userID) = {} THEN [ok |-> FALSE, err |-> FALSE]
    ELSE IF requiredRole = RoleEditor THEN [ok |-> TRUE, err |-> FALSE]
    ELSE [ok |-> FirstShare(boardID, userID).role = RoleEditor, err |-> FALSE]

CheckAccessAnyRole(boardID, userID, requiredRole, fail) ==
    IF fail = 1 THEN [ok |-> FALSE, err |-> TRUE]
    ELSE IF \E b \in boards : b.id = boardID /\ b.owner_id = userID
    THEN [ok |-> TRUE, err |-> FALSE]
    ELSE IF fail = 2 THEN [ok |-> FALSE, err |-> TRUE]
    ELSE IF SharesOf(boardID, userID) = {} THEN [ok |-> FALSE, err |-> FALSE]
    ELSE [ok |-> TRUE, err |-> FALSE]

\* CheckAccess reporting a failed query as "no access"
CheckAccessSwallowsError(boardID, userID, requiredRole, fail) ==
    IF fail = 1 THEN [ok |-> FALSE, err |-> FALSE]
    ELSE IF \E b \in boards : b.id = boardID /\ b.owner_id = userID
    THEN [ok |-> TRUE, err |-> FALSE]
    ELSE IF fail = 2 THEN [ok |-> FALSE, err |-> FALSE]
    ELSE IF SharesOf(boardID, userID) = {} THEN [ok |-> FALSE, err |-> FALSE]
    ELSE IF requiredRole = RoleViewer THEN [ok |-> TRUE, err |-> FALSE]
    ELSE [ok |-> FirstShare(boardID, userID).role = RoleEditor, err |-> FALSE]

CheckAccess(boardID, userID, requiredRole, fail) ==
    IF fail = 1 THEN [ok |-> FALSE, err |-> TRUE]
    ELSE IF \E b \in boards : b.id = boardID /\ b.owner_id = userID
    THEN [ok |-> TRUE, err |-> FALSE]
    ELSE IF fail = 2 THEN [ok |-> FALSE, err |-> TRUE]
    ELSE IF SharesOf(boardID, userID) = {} THEN [ok |-> FALSE, err |-> FALSE]
    ELSE IF requiredRole = RoleViewer THEN [ok |-> TRUE, err |-> FALSE]
    ELSE [ok |-> FirstShare(boardID, userID).role = RoleEditor, err |-> FALSE]

\* The statements of the ShareBoard transaction, on a share table sh.
\* tx.Save(&existingShare): UPDATE ... WHERE id = existingShare.ID.
SaveShareKeepRole(sh, existing, role) == sh

SaveShare(sh, existing, role) ==
    {IF s.board_id = existing.board_id /\ s.user_id = existing.user_id
        /\ s.id = existing.id
     THEN [s EXCEPT !.role = role] ELSE s : s \in sh}

\* board_shares has UNIQUE (board_id, user_id): an INSERT of a pair that
\* has a row is refused.
UniqueViolation(sh, boardID, userID) ==
    \E s \in sh : s.board_id = boardID /\ s.user_id = userID

\* tx.Create(&share)
InsertShare(sh, boardID, userID, role) ==
    sh \cup {[id |-> Cardinality({s \in sh : s.board_id = boardID
                                              /\ s.user_id = userID}),
              board_id |-> boardID, user_id |-> userID, role |-> role]}

\* ShareBoard run alone: look up, then update or insert, then commit.
\* fail = 1: the lookup fails; fail = 2: the write fails.  (shares, err)
RepoShareBoard(boardID, userID, role, fail) ==
    IF fail = 1 THEN [shares |-> shares, err |-> TRUE]
    ELSE IF SharesOf(boardID, userID) # {}
    THEN IF fail = 2 THEN [shares |-> shares, err |-> TRUE]
         ELSE [shares |-> SaveShare(shares, FirstShare(boardID, userID), role),
               err |-> FALSE]
    ELSE IF fail = 2 \/ UniqueViolation(shares, boardID, userID)
         THEN [shares |-> shares, err |-> TRUE]
         ELSE [shares |-> InsertShare(shares, boardID, userID, role),
               err |-> FALSE]

\* DELETE FROM board_shares WHERE board_id = ? AND user_id = ?
RepoRemoveShare(boardID, userID) == shares \ SharesOf(boardID, userID)

(***************************************************************************)
(* Requests in flight.  Each request is served by its own goroutine; a     *)
(* slot holds the handler's position (pc) and its local variables.  A      *)
(* slot serves one request.                                                *)
(***************************************************************************)
Slots == 1..MaxInFlight

Idle == [op |-> "idle", pc |-> "idle", principal |-> Nil, board |-> Nil,
         target |-> Nil, role |-> "", title |-> "", count |-> 0,
         seen |-> {}, stmt |-> "", status |-> 0,
         task |-> Nil, column |-> Nil, position |-> 0, writes |-> {},
         updates |-> <<>>]

InFlight(r) == reqs[r].pc \notin {"idle", "done"}

(***************************************************************************)
(* Initial state: the database after the migration, no request served.     *)
(***************************************************************************)
Init ==
    /\ users = {}
    /\ boards = {}
    /\ shares = {}
    /\ columns = {}
    /\ tasks = {}
    /\ labels = {}
    /\ task_labels = {}
    /\ last = [op |-> "none"]
    /\ reqs = [r \in Slots |-> Idle]

(***************************************************************************)
(* UserHandler.Register                                                    *)
(***************************************************************************)
Register(email, fault) ==
    LET existing == FindByEmail(email, fault = 1)
    IN /\ UNCHANGED <<labels, task_labels, boards, shares, columns, tasks, reqs>>
       /\ IF existing.err
          THEN /\ last' = [op |-> "Register", email |-> email,
                           status |-> StatusInternalServerError]
               /\ UNCHANGED users
          ELSE IF existing.user # Nil
          THEN /\ last' = [op |-> "Register", email |-> email,
                           status |-> StatusConflict]
               /\ UNCHANGED users
          ELSE IF fault = 2
          THEN /\ last' = [op |-> "Register", email |-> email,
                           status |-> StatusInternalServerError]
               /\ UNCHANGED users
          ELSE /\ users' = users \cup {email}
               /\ last' = [op |-> "Register", email |-> email,
                           status |-> StatusCreated]

(***************************************************************************)
(* BoardHandler.Create: the decision taken on the count that was read, and *)
(* the handler run without interruption.                                   *)
(***************************************************************************)
BoardCreateOutcomeOffByOne(count, title, fault) ==
    IF fault = 1 THEN StatusInternalServerError
    ELSE IF count > MaxBoardsPerUser THEN StatusForbidden
    ELSE IF title = "" THEN StatusBadRequest
    ELSE IF fault = 2 THEN StatusInternalServerError
    ELSE StatusCreated

BoardCreateOutcome(count, title, fault) ==
    IF fault = 1 THEN StatusInternalServerError
    ELSE IF count >= MaxBoardsPerUser THEN StatusForbidden
    ELSE IF title = "" THEN StatusBadRequest
    ELSE IF fault = 2 THEN StatusInternalServerError
    ELSE StatusCreated

BoardCreate(u, title, fault) ==
    LET status == BoardCreateOutcome(CountOwned(u), title, fault)
    IN /\ u \in users
       /\ UNCHANGED <<labels, task_labels, users, shares, columns, tasks, reqs>>
       /\ last' = [op |-> "BoardCreate", principal |-> u, fault |-> fault,
                   status |-> status]
       /\ IF status = StatusCreated
          THEN boards' = boards \cup
                   {[id |-> NewBoardID, owner_id |-> u, title |-> title]}
          ELSE UNCHANGED boards

(***************************************************************************)
(* BoardHandler.Create, query by query: CountOwned and Create are two      *)
(* statements, each in its own implicit transaction.                       *)
(***************************************************************************)
\* the request arrives; h.boardRepo.CountOwned, the cap and the body check
BoardCreateCount(r, u, title) ==
    LET count == CountOwned(u)
        status == BoardCreateOutcome(count, title, 0)
    IN /\ reqs[r].pc = "idle"
       /\ u \in users
       /\ reqs' = [reqs EXCEPT ![r] =
              [Idle EXCEPT !.op = "BoardCreate", !.principal = u,
                           !.title = title, !.count = count,
                           !.pc = IF status = StatusCreated
                                  THEN "create" ELSE "done",
                           !.status = IF status = StatusCreated
                                      THEN 0 ELSE status]]
       /\ UNCHANGED <<labels, task_labels, users, boards, shares, columns, tasks, last>>

\* h.boardRepo.Create and the answer
BoardCreateInsert(r) ==
    /\ reqs[r].op = "BoardCreate"
    /\ reqs[r].pc = "create"
    /\ boards' = boards \cup {[id |-> NewBoardID,
                               owner_id |-> reqs[r].principal,
                               title |-> reqs[r].title]}
    /\ reqs' = [reqs EXCEPT ![r].pc = "done", ![r].status = StatusCreated]
    /\ UNCHANGED <<labels, task_labels, users, shares, columns, tasks, last>>

(***************************************************************************)
(* BoardHandler.GetByID                                                    *)
(***************************************************************************)
BoardGetByIDResponseNoCheck(u, boardID, fault) ==
    LET board == GetByID(boardID)
    IN IF fault = 1 THEN [status |-> StatusInternalServerError, body |-> NoBoard]
       ELSE IF board = NoBoard THEN [status |-> StatusNotFound, body |-> NoBoard]
       ELSE [status |-> StatusOK, body |-> board]

BoardGetByIDResponse(u, boardID, fault) ==
    LET board == GetByID(boardID)
        access == CheckAccess(boardID, u, RoleViewer, fault - 1)
    IN IF fault = 1 THEN [status |-> StatusInternalServerError, body |-> NoBoard]
       ELSE IF board = NoBoard THEN [status |-> StatusNotFound, body |-> NoBoard]
       ELSE IF board.owner_id # u /\ access.err
            THEN [status |-> StatusInternalServerError, body |-> NoBoard]
       ELSE IF board.owner_id # u /\ ~access.ok
            THEN [status |-> StatusForbidden, body |-> NoBoard]
       ELSE [status |-> StatusOK, body |-> board]

BoardGetByID(u, boardID, fault) ==
    LET resp == BoardGetByIDResponse(u, boardID, fault)
    IN /\ u \in users
       /\ UNCHANGED <<labels, task_labels, users, boards, shares, columns, tasks, reqs>>
       /\ last' = [op |-> "BoardGetByID", principal |-> u, board |-> boardID,
                   fault |-> fault, status |-> resp.status, body |-> resp.body]

(***************************************************************************)
(* BoardShareHandler.ShareBoard.  ShareBoardPrecheck is the handler up to  *)
(* the repository call: the status it answers with, or 0 to go on.         *)
(* fault = 1 fails the board lookup, 2 the user lookup, 3 and 4 the two    *)
(* statements of the repository's transaction.                             *)
(***************************************************************************)
ShareBoardPrecheckSelf(u, boardID, email, role, fault) ==
    LET board == GetByID(boardID)
        targetUser == FindByEmail(email, fault = 2)
    IN IF fault = 1 THEN StatusInternalServerError
       ELSE IF board = NoBoard THEN StatusNotFound
       ELSE IF board.owner_id # u THEN StatusForbidden
       ELSE IF role \notin Roles THEN StatusBadRequest
       ELSE IF targetUser.err THEN StatusInternalServerError
       ELSE IF targetUser.user = Nil THEN StatusNotFound
       ELSE 0

ShareBoardPrecheckEditors(u, boardID, email, role, fault) ==
    LET board == GetByID(boardID)
        targetUser == FindByEmail(email, fault = 2)
    IN IF fault = 1 THEN StatusInternalServerError
       ELSE IF board = NoBoard THEN StatusNotFound
       ELSE IF board.owner_id # u
               /\ ~CheckAccess(boardID, u, RoleEditor, 0).ok
       THEN StatusForbidden
       ELSE IF role \notin Roles THEN StatusBadRequest
       ELSE IF targetUser.err THEN StatusInternalServerError
       ELSE IF targetUser.user = Nil THEN StatusNotFound
       ELSE IF targetUser.user = u THEN StatusBadRequest
       ELSE 0

ShareBoardPrecheck(u, boardID, email, role, fault) ==
    LET board == GetByID(boardID)
        targetUser == FindByEmail(email, fault = 2)
    IN IF fault = 1 THEN StatusInternalServerError
       ELSE IF board = NoBoard THEN StatusNotFound
       ELSE IF board.owner_id # u THEN StatusForbidden
       ELSE IF role \notin Roles THEN StatusBadRequest
       ELSE IF targetUser.err THEN StatusInternalServerError
       ELSE IF targetUser.user = Nil THEN StatusNotFound
       ELSE IF targetUser.user = u THEN StatusBadRequest
       ELSE 0

ShareBoard(u, boardID, email, role, fault) ==
    LET pre == ShareBoardPrecheck(u, boardID, email, role, fault)
        result == RepoShareBoard(boardID, email, role, fault - 2)
        resp(status) == [op |-> "ShareBoard", principal |-> u,
                         board |-> boardID, target |-> email, role |-> role,
                         before |-> {s.role : s \in SharesOf(boardID, email)},
                         status |-> status]
    IN /\ u \in users
       /\ UNCHANGED <<labels, task_labels, users, boards, columns, tasks, reqs>>
       /\ IF pre # 0
          THEN last' = resp(pre) /\ UNCHANGED shares
          ELSE IF result.err
          THEN last' = resp(StatusInternalServerError) /\ UNCHANGED shares
          ELSE last' = resp(StatusOK) /\ shares' = result.shares

(***************************************************************************)
(* Authentication.  A request carries no token or a token of one of these  *)
(* kinds, with a subject: a user id, or Nil for a subject that is not a    *)
(* user id.  ParseToken is the verification of internal/auth; the          *)
(* middleware in front of the protected routes resolves the principal.     *)
(***************************************************************************)
TokenKinds == {"none", "malformed", "expired", "signed"}

Tokens == [kind : TokenKinds, sub : UserIds \cup {Nil}]

\* jwt.Parse fails on a malformed token and on an expired one
ParseToken(token) ==
    IF token.kind \in {"malformed", "expired"}
    THEN [user_id |-> Nil, err |-> TRUE]
    ELSE [user_id |-> token.sub, err |-> FALSE]

\* the middleware letting expired tokens through
JWTAuthMiddlewareNoExpiry(token) ==
    IF token.kind \in {"none", "malformed"} \/ token.sub = Nil
    THEN [status |-> StatusUnauthorized, principal |-> Nil]
    ELSE [status |-> 0, principal |-> token.sub]

\* no Authorization header, a token that does not verify, a subject that
\* is not a user id: 401 and the chain is aborted; otherwise the principal
\* is put in the context
JWTAuthMiddleware(token) ==
    IF token.kind = "none" THEN [status |-> StatusUnauthorized, principal |-> Nil]
    ELSE IF ParseToken(token).err
    THEN [status |-> StatusUnauthorized, principal |-> Nil]
    ELSE IF ParseToken(token).user_id = Nil
    THEN [status |-> StatusUnauthorized, principal |-> Nil]
    ELSE [status |-> 0, principal |-> ParseToken(token).user_id]

\* POST /boards behind the middleware
AuthorizedBoardCreate(token, title) ==
    LET auth == JWTAuthMiddleware(token)
    IN IF auth.status # 0
       THEN /\ last' = [op |-> "JWTAuthMiddleware", token |-> token.kind,
                        sub |-> token.sub, status |-> auth.status]
            /\ UNCHANGED <<labels, task_labels, users, boards, shares, columns, tasks, reqs>>
       ELSE BoardCreate(auth.principal, title, 0)

(***************************************************************************)
(* ShareBoard, statement by statement.  The repository runs SELECT, then   *)
(* UPDATE or INSERT, in one transaction opened with the database's default *)
(* isolation (PostgreSQL: READ COMMITTED): a statement sees the rows       *)
(* committed before it starts; an INSERT or UPDATE that meets a row        *)
(* written by a transaction still open waits for that transaction to end.  *)
(***************************************************************************)
SamePair(r1, r2) ==
    /\ reqs[r1].board = reqs[r2].board
    /\ reqs[r1].target = reqs[r2].target

\* the request arrives; the handler validates it and opens the transaction
ShareBoardBegin(r, u, boardID, email, role) ==
    LET pre == ShareBoardPrecheck(u, boardID, email, role, 0)
    IN /\ reqs[r].pc = "idle"
       /\ u \in users
       /\ reqs' = [reqs EXCEPT ![r] =
              [Idle EXCEPT !.op = "ShareBoard", !.principal = u,
                           !.board = boardID, !.target = email, !.role = role,
                           !.pc = IF pre = 0 THEN "lookup" ELSE "done",
                           !.status = pre]]
       /\ UNCHANGED <<labels, task_labels, users, boards, shares, columns, tasks, last>>

\* tx.Where("board_id = ? AND user_id = ?").First(&existingShare)
ShareBoardLookup(r) ==
    /\ reqs[r].op = "ShareBoard"
    /\ reqs[r].pc = "lookup"
    /\ reqs' = [reqs EXCEPT ![r].pc = "write",
                            ![r].seen = IF SharesOf(reqs[r].board, reqs[r].target) = {}
                                        THEN {}
                                        ELSE {FirstShare(reqs[r].board, reqs[r].target)}]
    /\ UNCHANGED <<labels, task_labels, users, boards, shares, columns, tasks, last>>

\* tx.Save(&existingShare) or tx.Create(&share)
ShareBoardWrite(r) ==
    /\ reqs[r].op = "ShareBoard"
    /\ reqs[r].pc = "write"
    /\ ~\E o \in Slots \ {r} :
           /\ reqs[o].op = "ShareBoard"
           /\ reqs[o].pc = "commit"
           /\ SamePair(o, r)
    /\ IF reqs[r].seen # {}
       THEN reqs' = [reqs EXCEPT ![r].pc = "commit", ![r].stmt = "update"]
       ELSE IF UniqueViolation(shares, reqs[r].board, reqs[r].target)
       THEN reqs' = [reqs EXCEPT ![r].pc = "done", ![r].stmt = "insert",
                                 ![r].status = StatusInternalServerError]
       ELSE reqs' = [reqs EXCEPT ![r].pc = "commit", ![r].stmt = "insert"]
    /\ UNCHANGED <<labels, task_labels, users, boards, shares, columns, tasks, last>>

\* the transaction commits and the handler answers
ShareBoardCommit(r) ==
    /\ reqs[r].op = "ShareBoard"
    /\ reqs[r].pc = "commit"
    /\ shares' = IF reqs[r].stmt = "update"
                 THEN SaveShare(shares, CHOOSE s \in reqs[r].seen : TRUE,
                                reqs[r].role)
                 ELSE InsertShare(shares, reqs[r].board, reqs[r].target,
                                  reqs[r].role)
    /\ reqs' = [reqs EXCEPT ![r].pc = "done", ![r].status = StatusOK]
    /\ UNCHANGED <<labels, task_labels, users, boards, columns, tasks, last>>

(***************************************************************************)
(* BoardShareHandler.RemoveShare                                           *)
(***************************************************************************)
RemoveShare(u, boardID, targetUserID, fault) ==
    LET board == GetByID(boardID)
        resp(status) == [op |-> "RemoveShare", principal |-> u,
                         board |-> boardID, target |-> targetUserID,
                         removed |-> IF status = StatusOK
                                     THEN SharesOf(boardID, targetUserID)
                                     ELSE {},
                         status |-> status]
    IN /\ u \in users
       /\ UNCHANGED <<labels, task_labels, users, boards, columns, tasks, reqs>>
       /\ IF fault = 1
          THEN last' = resp(StatusInternalServerError) /\ UNCHANGED shares
          ELSE IF board = NoBoard
          THEN last' = resp(StatusNotFound) /\ UNCHANGED shares
          ELSE IF board.owner_id # u
          THEN last' = resp(StatusForbidden) /\ UNCHANGED shares
          ELSE IF fault = 2
          THEN last' = resp(StatusInternalServerError) /\ UNCHANGED shares
          ELSE last' = resp(StatusOK)
               /\ shares' = RepoRemoveShare(boardID, targetUserID)

(***************************************************************************)
(* ColumnHandler.checkBoardAccess; fail = 1 fails the board lookup,        *)
(* fail = 2, 3 the queries of CheckAccess.                                 *)
(***************************************************************************)
checkBoardAccess(boardID, userID, requiredRole, fail) ==
    LET board == GetByID(boardID)
    IN IF fail = 1 THEN [ok |-> FALSE, err |-> TRUE]
       ELSE IF board = NoBoard THEN [ok |-> FALSE, err |-> FALSE]
       ELSE IF board.owner_id = userID THEN [ok |-> TRUE, err |-> FALSE]
       ELSE CheckAccess(boardID, userID, requiredRole, fail - 1)

(***************************************************************************)
(* ColumnRepository.  A new row gets a key no row carries (uuid).          *)
(***************************************************************************)
NoColumn == [id |-> Nil, board_id |-> Nil, title |-> "", position |-> 0]

ColumnGetByID(id) ==
    IF \E c \in columns : c.id = id
    THEN CHOOSE c \in columns : c.id = id
    ELSE NoColumn

GetByBoardID(boardID) == {c \in columns : c.board_id = boardID}

\* SELECT COALESCE(MAX(position), 0) FROM columns WHERE board_id = ?
Max(S) == CHOOSE x \in S : \A y \in S : y <= x

GetMaxPosition(boardID) ==
    IF GetByBoardID(boardID) = {} THEN 0
    ELSE Max({c.position : c \in GetByBoardID(boardID)})

NewColumnID ==
    CHOOSE id \in ColumnIds :
        /\ \A c \in columns : c.id # id
        /\ \A other \in ColumnIds :
               (\A c \in columns : c.id # other) => id <= other

GetByIDs(ids) == {c \in columns : c.id \in ids}

\* DELETE FROM columns WHERE id = ?; tasks.column_id is ON DELETE CASCADE
ColumnRepoDelete(id) == {c \in columns : c.id # id}

CascadeTasks(id) == {t \in tasks : t.column_id # id}

\* task_labels.task_id without ON DELETE CASCADE: the rows stay
CascadeTaskLabelsKept(ts) == task_labels

\* task_labels.task_id is ON DELETE CASCADE: the rows of the tasks of ts
CascadeTaskLabels(ts) ==
    {tl \in task_labels : \E t \in ts : t.id = tl.task_id}

\* one UPDATE columns SET position = ? WHERE id = ? per element, in order
RECURSIVE RepoReorderColumns(_, _)
RepoReorderColumns(cols, updates) ==
    IF updates = <<>> THEN cols
    ELSE RepoReorderColumns(
             {IF c.id = Head(updates).id
              THEN [c EXCEPT !.position = Head(updates).position]
              ELSE c : c \in cols},
             Tail(updates))

(***************************************************************************)
(* ColumnHandler.  In each handler fault = k makes the k-th query of the   *)
(* handler fail (0: none fails).                                           *)
(***************************************************************************)
\* the position a new column is stored at
ColumnCreatePosition(boardID, position) ==
    IF position = 0 THEN GetMaxPosition(boardID) + 1 ELSE position

ColumnCreate(u, boardID, title, position, fault) ==
    LET access == checkBoardAccess(boardID, u, RoleEditor, fault)
        resp(status, id) == [op |-> "ColumnCreate", principal |-> u,
                             board |-> boardID, id |-> id,
                             position |-> position, status |-> status]
    IN /\ u \in users
       /\ UNCHANGED <<labels, task_labels, users, boards, shares, tasks, reqs>>
       /\ IF title = ""
          THEN last' = resp(StatusBadRequest, Nil) /\ UNCHANGED columns
          ELSE IF access.err
          THEN last' = resp(StatusInternalServerError, Nil) /\ UNCHANGED columns
          ELSE IF ~access.ok
          THEN last' = resp(StatusForbidden, Nil) /\ UNCHANGED columns
          ELSE IF (position = 0 /\ fault = 4) \/ fault = 5
          THEN last' = resp(StatusInternalServerError, Nil) /\ UNCHANGED columns
          ELSE /\ last' = resp(StatusCreated, NewColumnID)
               /\ columns' = columns \cup
                      {[id |-> NewColumnID, board_id |-> boardID,
                        title |-> title,
                        position |-> ColumnCreatePosition(boardID, position)]}

\* the row ColumnHandler.Update saves
ColumnUpdated(column, title, position) ==
    [column EXCEPT !.title = IF title # "" THEN title ELSE @,
                   !.position = IF position # 0 THEN position ELSE @]

ColumnUpdate(u, columnID, title, position, fault) ==
    LET column == ColumnGetByID(columnID)
        access == checkBoardAccess(column.board_id, u, RoleEditor, fault - 1)
        resp(status) == [op |-> "ColumnUpdate", principal |-> u,
                         board |-> column.board_id, id |-> columnID,
                         position |-> position, status |-> status]
    IN /\ u \in users
       /\ UNCHANGED <<labels, task_labels, users, boards, shares, tasks, reqs>>
       /\ IF fault = 1
          THEN last' = resp(StatusInternalServerError) /\ UNCHANGED columns
          ELSE IF column = NoColumn
          THEN last' = resp(StatusNotFound) /\ UNCHANGED columns
          ELSE IF access.err
          THEN last' = resp(StatusInternalServerError) /\ UNCHANGED columns
          ELSE IF ~access.ok
          THEN last' = resp(StatusForbidden) /\ UNCHANGED columns
          ELSE IF fault = 5
          THEN last' = resp(StatusInternalServerError) /\ UNCHANGED columns
          ELSE /\ last' = resp(StatusOK)
               /\ columns' = (columns \ {column})
                                 \cup {ColumnUpdated(column, title, position)}

ColumnDelete(u, columnID, fault) ==
    LET column == ColumnGetByID(columnID)
        access == checkBoardAccess(column.board_id, u, RoleEditor, fault - 1)
        resp(status) == [op |-> "ColumnDelete", principal |-> u,
                         board |-> column.board_id, id |-> columnID,
                         position |-> column.position, status |-> status]
    IN /\ u \in users
       /\ UNCHANGED <<labels, users, boards, shares, reqs>>
       /\ IF fault = 1
          THEN last' = resp(StatusInternalServerError) /\ UNCHANGED <<columns, tasks>>
          ELSE IF column = NoColumn
          THEN last' = resp(StatusNotFound) /\ UNCHANGED <<columns, tasks>>
          ELSE IF access.err
          THEN last' = resp(StatusInternalServerError) /\ UNCHANGED <<columns, tasks>>
          ELSE IF ~access.ok
          THEN last' = resp(StatusForbidden) /\ UNCHANGED <<columns, tasks>>
          ELSE IF fault = 5
          THEN last' = resp(StatusInternalServerError) /\ UNCHANGED <<columns, tasks>>
          ELSE /\ last' = resp(StatusOK)
               /\ columns' = ColumnRepoDelete(columnID)
               /\ tasks' = CascadeTasks(columnID)
       /\ task_labels' = CascadeTaskLabels(tasks')

\* req.Columns is a list of (id, position)
SeqIds(updates) == {updates[i].id : i \in DOMAIN updates}

ReorderColumns(u, boardID, updates, fault) ==
    LET access == checkBoardAccess(boardID, u, RoleEditor, fault)
        existingColumns == GetByIDs(SeqIds(updates))
        resp(status) == [op |-> "ReorderColumns", principal |-> u,
                         board |-> boardID, status |-> status]
    IN /\ u \in users
       /\ UNCHANGED <<labels, task_labels, users, boards, shares, tasks, reqs>>
       /\ IF access.err
          THEN last' = resp(StatusInternalServerError) /\ UNCHANGED columns
          ELSE IF ~access.ok
          THEN last' = resp(StatusForbidden) /\ UNCHANGED columns
          ELSE IF fault = 4
          THEN last' = resp(StatusInternalServerError) /\ UNCHANGED columns
          ELSE IF Cardinality(existingColumns) # Len(updates)
          THEN last' = resp(StatusBadRequest) /\ UNCHANGED columns
          ELSE IF \E c \in existingColumns : c.board_id # boardID
          THEN last' = resp(StatusBadRequest) /\ UNCHANGED columns
          ELSE IF fault = 5
          THEN last' = resp(StatusInternalServerError) /\ UNCHANGED columns
          ELSE /\ last' = resp(StatusOK)
               /\ columns' = RepoReorderColumns(columns, updates)

(***************************************************************************)
(* TaskRepository.  A new row gets a key no row carries (uuid).            *)
(***************************************************************************)
NoTask == [id |-> Nil, column_id |-> Nil, title |-> "", position |-> 0,
           created_by |-> Nil, assigned_to |-> Nil]

TaskGetByID(id) ==
    IF \E t \in tasks : t.id = id
    THEN CHOOSE t \in tasks : t.id = id
    ELSE NoTask

GetByColumnID(columnID) == {t \in tasks : t.column_id = columnID}

NewTaskID ==
    CHOOSE id \in TaskIds :
        /\ \A t \in tasks : t.id # id
        /\ \A other \in TaskIds :
               (\A t \in tasks : t.id # other) => id <= other

\* DELETE FROM tasks WHERE id = ?
TaskRepoDelete(id) == {t \in tasks : t.id # id}

\* UPDATE tasks SET position = position + delta
\*     WHERE column_id = ? AND lo <= position AND position <= hi
ShiftTasks(ts, columnID, lo, hi, delta) ==
    {IF t.column_id = columnID /\ lo <= t.position /\ t.position <= hi
     THEN [t EXCEPT !.position = @ + delta]
     ELSE t : t \in ts}

\* the greatest position of the table: the shifts with an open upper end
\* reach up to it
TopPosition == Max({0} \cup {t.position : t \in tasks})

\* tx.Save(&task): the row read at the start of the transaction, written
\* back whole under its key
SaveTask(ts, task) == {t \in ts : t.id # task.id} \cup {task}

\* TaskRepository.MoveTask of a task that exists: the table after commit
RepoMoveTask(taskID, columnID, newPosition) ==
    LET task == TaskGetByID(taskID)
        oldColumnID == task.column_id
        oldPosition == task.position
    IN IF oldColumnID # columnID
       THEN SaveTask(
                ShiftTasks(
                    ShiftTasks(tasks, oldColumnID, oldPosition + 1,
                               TopPosition, -1),
                    columnID, newPosition, TopPosition, 1),
                [task EXCEPT !.column_id = columnID, !.position = newPosition])
       ELSE IF oldPosition < newPosition
       THEN SaveTask(
                ShiftTasks(tasks, columnID, oldPosition + 1, newPosition, -1),
                [task EXCEPT !.position = newPosition])
       ELSE IF oldPosition > newPosition
       THEN SaveTask(
                ShiftTasks(tasks, columnID, newPosition, oldPosition - 1, 1),
                [task EXCEPT !.position = newPosition])
       ELSE SaveTask(tasks, task)

(***************************************************************************)
(* TaskHandler.  In each handler fault = k makes the k-th query of the     *)
(* handler fail (0: none fails).  A request body carries a position or     *)
(* none (hasPosition).                                                     *)
(***************************************************************************)
\* hasAccess || board.OwnerID == user, after the lookups of the column and
\* of the board; fail = 1, 2 fail those lookups, fail = 3, 4 the queries of
\* CheckAccess
taskBoardAccess(column, u, fail) ==
    LET board == GetByID(column.board_id)
        hasAccess == CheckAccess(column.board_id, u, RoleEditor, fail - 2)
    IN IF fail \in {1, 2} \/ hasAccess.err THEN [ok |-> FALSE, err |-> TRUE]
       ELSE [ok |-> hasAccess.ok \/ board.owner_id = u, err |-> FALSE]

\* the position a new task is stored at
TaskCreatePositionAfterMax(columnID, hasPosition, position) ==
    IF hasPosition THEN position
    ELSE Max({0} \cup {t.position : t \in GetByColumnID(columnID)}) + 1

TaskCreatePosition(columnID, hasPosition, position) ==
    IF hasPosition THEN position ELSE Cardinality(GetByColumnID(columnID))

TaskCreate(u, columnID, title, hasPosition, position, fault) ==
    LET column == ColumnGetByID(columnID)
        access == taskBoardAccess(column, u, fault)
        resp(status) == [op |-> "TaskCreate", principal |-> u,
                         explicit |-> hasPosition, status |-> status]
        task == [id |-> NewTaskID, column_id |-> columnID, title |-> title,
                 position |-> TaskCreatePosition(columnID, hasPosition, position),
                 created_by |-> u, assigned_to |-> Nil]
    IN /\ u \in users
       /\ UNCHANGED <<labels, task_labels, users, boards, shares, columns, reqs>>
       /\ IF title = ""
          THEN last' = resp(StatusBadRequest) /\ UNCHANGED tasks
          ELSE IF fault = 1
          THEN last' = resp(StatusInternalServerError) /\ UNCHANGED tasks
          ELSE IF column = NoColumn
          THEN last' = resp(StatusNotFound) /\ UNCHANGED tasks
          ELSE IF access.err
          THEN last' = resp(StatusInternalServerError) /\ UNCHANGED tasks
          ELSE IF ~access.ok
          THEN last' = resp(StatusForbidden) /\ UNCHANGED tasks
          ELSE IF (~hasPosition /\ fault = 5) \/ fault = 6
          THEN last' = resp(StatusInternalServerError) /\ UNCHANGED tasks
          ELSE /\ tasks' = tasks \cup {task}
               /\ last' = resp(IF fault = 7 THEN StatusInternalServerError
                               ELSE StatusCreated)

TaskUpdate(u, taskID, columnID, title, hasPosition, position, fault) ==
    LET task == TaskGetByID(taskID)
        column == ColumnGetByID(task.column_id)
        access == taskBoardAccess(column, u, fault - 1)
        columnChanged == columnID # task.column_id
        newColumn == ColumnGetByID(columnID)
        resp(status) == [op |-> "TaskUpdate", principal |-> u,
                         status |-> status]
    IN /\ u \in users
       /\ UNCHANGED <<labels, task_labels, users, boards, shares, columns, reqs>>
       /\ IF fault = 1
          THEN last' = resp(StatusInternalServerError) /\ UNCHANGED tasks
          ELSE IF task = NoTask
          THEN last' = resp(StatusNotFound) /\ UNCHANGED tasks
          ELSE IF access.err
          THEN last' = resp(StatusInternalServerError) /\ UNCHANGED tasks
          ELSE IF ~access.ok
          THEN last' = resp(StatusForbidden) /\ UNCHANGED tasks
          ELSE IF title = ""
          THEN last' = resp(StatusBadRequest) /\ UNCHANGED tasks
          ELSE IF columnChanged /\ fault = 6
          THEN last' = resp(StatusInternalServerError) /\ UNCHANGED tasks
          ELSE IF columnChanged /\ newColumn = NoColumn
          THEN last' = resp(StatusNotFound) /\ UNCHANGED tasks
          ELSE IF columnChanged /\ newColumn.board_id # column.board_id
          THEN last' = resp(StatusBadRequest) /\ UNCHANGED tasks
          ELSE IF fault = 7
          THEN last' = resp(StatusInternalServerError) /\ UNCHANGED tasks
          ELSE /\ last' = resp(StatusOK)
               /\ IF columnChanged \/ (hasPosition /\ position # task.position)
                  THEN tasks' = RepoMoveTask(
                                    taskID, columnID,
                                    IF hasPosition THEN position
                                    ELSE task.position)
                  ELSE tasks' = SaveTask(tasks, [task EXCEPT !.title = title])

TaskDelete(u, taskID, fault) ==
    LET task == TaskGetByID(taskID)
        column == ColumnGetByID(task.column_id)
        access == taskBoardAccess(column, u, fault - 1)
        resp(status) == [op |-> "TaskDelete", principal |-> u,
                         status |-> status]
    IN /\ u \in users
       /\ UNCHANGED <<labels, users, boards, shares, columns, reqs>>
       /\ IF fault = 1
          THEN last' = resp(StatusInternalServerError) /\ UNCHANGED tasks
          ELSE IF task = NoTask
          THEN last' = resp(StatusNotFound) /\ UNCHANGED tasks
          ELSE IF access.err
          THEN last' = resp(StatusInternalServerError) /\ UNCHANGED tasks
          ELSE IF ~access.ok /\ task.created_by # u
          THEN last' = resp(StatusForbidden) /\ UNCHANGED tasks
          ELSE IF fault = 6
          THEN last' = resp(StatusInternalServerError) /\ UNCHANGED tasks
          ELSE /\ last' = resp(StatusOK)
               /\ tasks' = TaskRepoDelete(taskID)
       /\ task_labels' = CascadeTaskLabels(tasks')

\* TaskMoveRequest.Position is bound "required,min=0": the zero value fails
\* "required"
TaskMove(u, taskID, columnID, position, fault) ==
    LET task == TaskGetByID(taskID)
        column == ColumnGetByID(task.column_id)
        access == taskBoardAccess(column, u, fault - 1)
        targetColumn == ColumnGetByID(columnID)
        resp(status) == [op |-> "TaskMove", principal |-> u, task |-> taskID,
                         fault |-> fault, status |-> status]
    IN /\ u \in users
       /\ UNCHANGED <<labels, task_labels, users, boards, shares, columns, reqs>>
       /\ IF fault = 1
          THEN last' = resp(StatusInternalServerError) /\ UNCHANGED tasks
          ELSE IF task = NoTask
          THEN last' = resp(StatusNotFound) /\ UNCHANGED tasks
          ELSE IF access.err
          THEN last' = resp(StatusInternalServerError) /\ UNCHANGED tasks
          ELSE IF ~access.ok
          THEN last' = resp(StatusForbidden) /\ UNCHANGED tasks
          ELSE IF position <= 0
          THEN last' = resp(StatusBadRequest) /\ UNCHANGED tasks
          ELSE IF columnID # task.column_id /\ fault = 6
          THEN last' = resp(StatusInternalServerError) /\ UNCHANGED tasks
          ELSE IF columnID # task.column_id /\ targetColumn = NoColumn
          THEN last' = resp(StatusNotFound) /\ UNCHANGED tasks
          ELSE IF columnID # task.column_id
                  /\ targetColumn.board_id # column.board_id
          THEN last' = resp(StatusBadRequest) /\ UNCHANGED tasks
          ELSE IF fault = 7
          THEN last' = resp(StatusInternalServerError) /\ UNCHANGED tasks
          ELSE /\ last' = resp(StatusOK)
               /\ tasks' = RepoMoveTask(taskID, columnID, position)

(***************************************************************************)
(* A task move, statement by statement.  TaskRepository.MoveTask runs its  *)
(* statements on the handle tx of one db.Transaction: the rows they write  *)
(* (writes) reach the table when the transaction commits and are dropped   *)
(* when a statement fails.  Under PostgreSQL's default isolation a         *)
(* statement reads what is committed when it starts together with the      *)
(* transaction's own writes, and a statement that meets a row written by   *)
(* a transaction still open waits for that transaction to end.             *)
(***************************************************************************)
\* the table ts with the rows of ws written over it, by key
Overlay(ts, ws) == {t \in ts : \A w \in ws : w.id # t.id} \cup ws

\* what the statements of request r read
TxView(r) == Overlay(tasks, reqs[r].writes)

TopOf(ts) == Max({0} \cup {t.position : t \in ts})

\* the keys of the rows other open transactions have written
LockedByOthers(r) ==
    {w.id : w \in UNION {reqs[o].writes : o \in {o \in Slots \ {r} : InFlight(o)}}}

\* the table after a transaction that failed
RollbackKeepsWrites(ts, ws) == Overlay(ts, ws)

Rollback(ts, ws) == ts

\* the handler of POST /tasks/:id/move up to the call of MoveTask: the
\* status it answers, 0 if it goes on to the call
TaskMovePrecheckAnyBoard(u, taskID, columnID, position) ==
    LET task == TaskGetByID(taskID)
        column == ColumnGetByID(task.column_id)
        access == taskBoardAccess(column, u, 0)
        targetColumn == ColumnGetByID(columnID)
    IN IF task = NoTask THEN StatusNotFound
       ELSE IF ~access.ok THEN StatusForbidden
       ELSE IF position <= 0 THEN StatusBadRequest
       ELSE IF columnID # task.column_id /\ targetColumn = NoColumn
       THEN StatusNotFound
       ELSE 0

TaskMovePrecheck(u, taskID, columnID, position) ==
    LET task == TaskGetByID(taskID)
        column == ColumnGetByID(task.column_id)
        access == taskBoardAccess(column, u, 0)
        targetColumn == ColumnGetByID(columnID)
    IN IF task = NoTask THEN StatusNotFound
       ELSE IF ~access.ok THEN StatusForbidden
       ELSE IF position <= 0 THEN StatusBadRequest
       ELSE IF columnID # task.column_id /\ targetColumn = NoColumn
       THEN StatusNotFound
       ELSE IF columnID # task.column_id
                  /\ targetColumn.board_id # column.board_id
       THEN StatusBadRequest
       ELSE 0

TaskMoveBegin(r, u, taskID, columnID, position) ==
    LET pre == TaskMovePrecheck(u, taskID, columnID, position)
    IN /\ reqs[r].pc = "idle"
       /\ u \in users
       /\ reqs' = [reqs EXCEPT ![r] =
              [Idle EXCEPT !.op = "TaskMove", !.principal = u,
                           !.task = taskID, !.column = columnID,
                           !.position = position,
                           !.pc = IF pre = 0 THEN "first" ELSE "done",
                           !.status = pre]]
       /\ UNCHANGED <<labels, task_labels, users, boards, shares, columns, tasks, last>>

\* the handler of PUT /tasks/:id up to the call of MoveTask or Update
TaskUpdatePrecheck(u, taskID, columnID, title) ==
    LET task == TaskGetByID(taskID)
        column == ColumnGetByID(task.column_id)
        access == taskBoardAccess(column, u, 0)
        newColumn == ColumnGetByID(columnID)
    IN IF task = NoTask THEN StatusNotFound
       ELSE IF ~access.ok THEN StatusForbidden
       ELSE IF title = "" THEN StatusBadRequest
       ELSE IF columnID # task.column_id /\ newColumn = NoColumn
       THEN StatusNotFound
       ELSE IF columnID # task.column_id
                  /\ newColumn.board_id # column.board_id
       THEN StatusBadRequest
       ELSE 0

TaskUpdateBegin(r, u, taskID, columnID, title, hasPosition, position) ==
    LET pre == TaskUpdatePrecheck(u, taskID, columnID, title)
        task == TaskGetByID(taskID)
        moves == columnID # task.column_id
                     \/ (hasPosition /\ position # task.position)
    IN /\ reqs[r].pc = "idle"
       /\ u \in users
       /\ reqs' = [reqs EXCEPT ![r] =
              [Idle EXCEPT !.op = "TaskUpdate", !.principal = u,
                           !.task = taskID, !.column = columnID,
                           !.title = title,
                           !.position = IF hasPosition THEN position
                                        ELSE task.position,
                           !.seen = IF pre = 0 /\ ~moves
                                    THEN {[task EXCEPT !.title = title]}
                                    ELSE {},
                           !.pc = IF pre # 0 THEN "done"
                                  ELSE IF moves THEN "first" ELSE "update",
                           !.status = pre]]
       /\ UNCHANGED <<labels, task_labels, users, boards, shares, columns, tasks, last>>

\* h.taskRepo.Update(task): one Save outside any transaction
TaskUpdateSave(r) ==
    /\ reqs[r].pc = "update"
    /\ \A t \in reqs[r].seen : t.id \notin LockedByOthers(r)
    /\ tasks' = Overlay(tasks, reqs[r].seen)
    /\ reqs' = [reqs EXCEPT ![r].pc = "done", ![r].status = StatusOK]
    /\ UNCHANGED <<labels, task_labels, users, boards, shares, columns, last>>

\* a statement of the transaction of r writes the rows written, once no
\* other open transaction holds one of them
TxStatement(r, written, pc) ==
    /\ \A t \in written : t.id \notin LockedByOthers(r)
    /\ reqs' = [reqs EXCEPT ![r].pc = pc,
                            ![r].writes = Overlay(reqs[r].writes, written)]
    /\ UNCHANGED <<labels, task_labels, users, boards, shares, columns, tasks, last>>

\* the rows an UPDATE of positions writes in the transaction of r
Shifted(r, columnID, lo, hi, delta) ==
    ShiftTasks(TxView(r), columnID, lo, hi, delta) \ TxView(r)

\* the row MoveTask read with tx.First
OldRow(r) == CHOOSE t \in reqs[r].seen : TRUE

\* tx.First(&task, "id = ?", taskID)
MoveTaskFirst(r) ==
    LET task == TaskGetByID(reqs[r].task)
    IN /\ reqs[r].pc = "first"
       /\ reqs' = [reqs EXCEPT
              ![r].seen = IF task = NoTask THEN {} ELSE {task},
              ![r].status = IF task = NoTask THEN StatusInternalServerError
                            ELSE 0,
              ![r].pc = IF task = NoTask THEN "done"
                        ELSE IF task.column_id # reqs[r].column THEN "shiftold"
                        ELSE IF task.position # reqs[r].position THEN "shift"
                        ELSE "save"]
       /\ UNCHANGED <<labels, task_labels, users, boards, shares, columns, tasks, last>>

\* UPDATE tasks SET position = position - 1
\*     WHERE column_id = oldColumnID AND position > oldPosition
MoveTaskShiftOld(r) ==
    /\ reqs[r].pc = "shiftold"
    /\ TxStatement(r, Shifted(r, OldRow(r).column_id, OldRow(r).position + 1,
                              TopOf(TxView(r)), -1),
                   "shiftnew")

\* UPDATE tasks SET position = position + 1
\*     WHERE column_id = columnID AND position >= newPosition
MoveTaskShiftNewAbove(r) ==
    /\ reqs[r].pc = "shiftnew"
    /\ TxStatement(r, Shifted(r, reqs[r].column, reqs[r].position + 1,
                              TopOf(TxView(r)), 1),
                   "save")

MoveTaskShiftNew(r) ==
    /\ reqs[r].pc = "shiftnew"
    /\ TxStatement(r, Shifted(r, reqs[r].column, reqs[r].position,
                              TopOf(TxView(r)), 1),
                   "save")

\* the one UPDATE of a move within the column
MoveTaskShiftAlwaysDown(r) ==
    /\ reqs[r].pc = "shift"
    /\ TxStatement(r, Shifted(r, reqs[r].column, OldRow(r).position + 1,
                              reqs[r].position, -1),
                   "save")

MoveTaskShift(r) ==
    /\ reqs[r].pc = "shift"
    /\ TxStatement(r,
           IF OldRow(r).position < reqs[r].position
           THEN Shifted(r, reqs[r].column, OldRow(r).position + 1,
                        reqs[r].position, -1)
           ELSE Shifted(r, reqs[r].column, reqs[r].position,
                        OldRow(r).position - 1, 1),
           "save")

\* tx.Save(&task): the row read by tx.First, with the new column and
\* position, written whole under its key
MoveTaskSave(r) ==
    /\ reqs[r].pc = "save"
    /\ TxStatement(r, {[OldRow(r) EXCEPT !.column_id = reqs[r].column,
                                         !.position = reqs[r].position]},
                   "commit")

\* the transaction commits and the handler answers
MoveTaskCommit(r) ==
    /\ reqs[r].pc = "commit"
    /\ reqs[r].op \in {"TaskMove", "TaskUpdate"}
    /\ tasks' = Overlay(tasks, reqs[r].writes)
    /\ reqs' = [reqs EXCEPT ![r].pc = "done", ![r].status = StatusOK]
    /\ UNCHANGED <<labels, task_labels, users, boards, shares, columns, last>>

\* a statement of the transaction fails: MoveTask returns the error, the
\* transaction is rolled back and the handler answers 500
MoveTaskFail(r) ==
    /\ reqs[r].pc \in {"first", "shiftold", "shiftnew", "shift", "save"}
    /\ tasks' = Rollback(tasks, reqs[r].writes)
    /\ reqs' = [reqs EXCEPT ![r].pc = "done",
                            ![r].status = StatusInternalServerError]
    /\ UNCHANGED <<labels, task_labels, users, boards, shares, columns, last>>

(***************************************************************************)
(* Lock waits.  An UPDATE or Save of a transaction waits for the open      *)
(* transactions that have written one of its rows.  The store is           *)
(* PostgreSQL: when the waits form a cycle its deadlock detector fails the *)
(* statement of one transaction of the cycle, MoveTask returns the error   *)
(* and db.Transaction rolls back.                                          *)
(***************************************************************************)
\* the rows the next statement of the transaction of r writes
StatementRows(r) ==
    IF reqs[r].pc = "shiftold"
    THEN Shifted(r, OldRow(r).column_id, OldRow(r).position + 1,
                 TopOf(TxView(r)), -1)
    ELSE IF reqs[r].pc = "shiftnew"
    THEN Shifted(r, reqs[r].column, reqs[r].position, TopOf(TxView(r)), 1)
    ELSE IF reqs[r].pc = "shift"
    THEN IF OldRow(r).position < reqs[r].position
         THEN Shifted(r, reqs[r].column, OldRow(r).position + 1,
                      reqs[r].position, -1)
         ELSE Shifted(r, reqs[r].column, reqs[r].position,
                      OldRow(r).position - 1, 1)
    ELSE IF reqs[r].pc = "save"
    THEN {[OldRow(r) EXCEPT !.column_id = reqs[r].column,
                            !.position = reqs[r].position]}
    ELSE {}

\* the statement of r waits for a row the open transaction of o has written
WaitsFor(r, o) ==
    /\ o # r
    /\ InFlight(r)
    /\ InFlight(o)
    /\ \E t \in StatementRows(r) : \E w \in reqs[o].writes : w.id = t.id

RECURSIVE WaitsChain(_, _, _)
WaitsChain(r, o, n) ==
    \/ WaitsFor(r, o)
    \/ /\ n > 1
       /\ \E p \in Slots : WaitsFor(r, p) /\ WaitsChain(p, o, n - 1)

\* a store without deadlock detection
DeadlockedNever(r) == FALSE

\* r is on a cycle of waits
Deadlocked(r) == WaitsChain(r, r, MaxInFlight)

\* the deadlock detector fails the waiting statement of r
DeadlockAbort(r) ==
    /\ Deadlocked(r)
    /\ MoveTaskFail(r)

(***************************************************************************)
(* POST /tasks in two steps: the handler's lookups, checks and the read    *)
(* that determines the position (taskRepo.GetByColumnID, when the request  *)
(* carries none), then taskRepo.Create.  The handler opens no transaction: *)
(* each query is a statement of its own.                                   *)
(***************************************************************************)
TaskCreateBegin(r, u, columnID, title, hasPosition, position) ==
    LET column == ColumnGetByID(columnID)
        access == taskBoardAccess(column, u, 0)
        pre == IF title = "" THEN StatusBadRequest
               ELSE IF column = NoColumn THEN StatusNotFound
               ELSE IF ~access.ok THEN StatusForbidden
               ELSE 0
    IN /\ reqs[r].pc = "idle"
       /\ u \in users
       /\ reqs' = [reqs EXCEPT ![r] =
              [Idle EXCEPT !.op = "TaskCreate", !.principal = u,
                           !.column = columnID, !.title = title,
                           !.stmt = IF pre = 0 /\ ~hasPosition
                                    THEN "GetByColumnID" ELSE "",
                           !.position = IF pre = 0
                                        THEN TaskCreatePosition(
                                                 columnID, hasPosition, position)
                                        ELSE 0,
                           !.pc = IF pre = 0 THEN "create" ELSE "done",
                           !.status = pre]]
       /\ UNCHANGED <<labels, task_labels, users, boards, shares, columns, tasks, last>>

\* taskRepo.Create: the insert fails on the foreign key when the column is
\* gone, and the handler answers 500
TaskCreateInsert(r) ==
    /\ reqs[r].op = "TaskCreate"
    /\ reqs[r].pc = "create"
    /\ IF ColumnGetByID(reqs[r].column) = NoColumn
       THEN /\ reqs' = [reqs EXCEPT ![r].pc = "done",
                                    ![r].status = StatusInternalServerError]
            /\ UNCHANGED tasks
       ELSE /\ tasks' = tasks \cup
                   {[id |-> NewTaskID, column_id |-> reqs[r].column,
                     title |-> reqs[r].title, position |-> reqs[r].position,
                     created_by |-> reqs[r].principal, assigned_to |-> Nil]}
            /\ reqs' = [reqs EXCEPT ![r].pc = "done", ![r].task = NewTaskID,
                                    ![r].status = StatusCreated]
    /\ UNCHANGED <<labels, task_labels, users, boards, shares, columns, last>>

(***************************************************************************)
(* DELETE /tasks/:id in two steps: the handler's lookups and checks, then   *)
(* TaskRepository.Delete, a single statement that waits for an open         *)
(* transaction holding the row.                                            *)
(***************************************************************************)
TaskDeleteBegin(r, u, taskID) ==
    LET task == TaskGetByID(taskID)
        column == ColumnGetByID(task.column_id)
        access == taskBoardAccess(column, u, 0)
        pre == IF task = NoTask THEN StatusNotFound
               ELSE IF ~access.ok /\ task.created_by # u THEN StatusForbidden
               ELSE 0
    IN /\ reqs[r].pc = "idle"
       /\ u \in users
       /\ reqs' = [reqs EXCEPT ![r] =
              [Idle EXCEPT !.op = "TaskDelete", !.principal = u,
                           !.task = taskID,
                           !.pc = IF pre = 0 THEN "delete" ELSE "done",
                           !.status = pre]]
       /\ UNCHANGED <<labels, task_labels, users, boards, shares, columns, tasks, last>>

\* taskRepo.Delete: RowsAffected == 0 is ErrTaskNotFound, which the handler
\* answers like every other error of the call
TaskDeleteExec(r) ==
    /\ reqs[r].pc = "delete"
    /\ reqs[r].task \notin LockedByOthers(r)
    /\ tasks' = TaskRepoDelete(reqs[r].task)
    /\ task_labels' = CascadeTaskLabels(tasks')
    /\ reqs' = [reqs EXCEPT
           ![r].pc = "done",
           ![r].status = IF TaskGetByID(reqs[r].task) = NoTask
                         THEN StatusInternalServerError ELSE StatusOK]
    /\ UNCHANGED <<labels, users, boards, shares, columns, last>>

(***************************************************************************)
(* Labels of a task.  task_labels holds one row per association; its       *)
(* primary key is (task_id, label_id), and both columns are foreign keys.  *)
(* The field row tells the rows of one pair apart.                         *)
(***************************************************************************)
RowsOf(taskID, labelID) ==
    {tl \in task_labels : tl.task_id = taskID /\ tl.label_id = labelID}

\* the number of a new row, fresh among the rows of its (task, label) pair
NewRow(taskID, labelID) ==
    CHOOSE n \in 1..(Cardinality(RowsOf(taskID, labelID)) + 1) :
        \A tl \in RowsOf(taskID, labelID) : tl.row # n

\* the foreign keys of a row (taskID, labelID) hold
Referenced(taskID, labelID) ==
    /\ \E t \in tasks : t.id = taskID
    /\ \E l \in labels : l.id = labelID

\* INSERT INTO task_labels (task_id, label_id) VALUES (?, ?), without the
\* ON CONFLICT clause: a second row for the key is a unique violation
RepoAddLabelPlainInsert(taskID, labelID) ==
    IF ~Referenced(taskID, labelID) \/ RowsOf(taskID, labelID) # {}
    THEN [err |-> TRUE, rows |-> task_labels]
    ELSE [err |-> FALSE,
          rows |-> task_labels \cup
                   {[task_id |-> taskID, label_id |-> labelID, row |-> NewRow(taskID, labelID)]}]

\* INSERT INTO task_labels (task_id, label_id) VALUES (?, ?)
\*     ON CONFLICT DO NOTHING
RepoAddLabel(taskID, labelID) ==
    IF RowsOf(taskID, labelID) # {}
    THEN [err |-> FALSE, rows |-> task_labels]
    ELSE IF ~Referenced(taskID, labelID)
    THEN [err |-> TRUE, rows |-> task_labels]
    ELSE [err |-> FALSE,
          rows |-> task_labels \cup
                   {[task_id |-> taskID, label_id |-> labelID, row |-> NewRow(taskID, labelID)]}]

\* DELETE FROM task_labels WHERE task_id = ? AND label_id = ?
RepoRemoveLabel(taskID, labelID) ==
    [err |-> FALSE, rows |-> task_labels \ RowsOf(taskID, labelID)]

\* POST /tasks/:id/labels/:label_id; fault = 1 fails the lookup of the task,
\* 2 .. 5 the lookups of taskBoardAccess, 6 the statement of AddLabel.  The
\* field attached tells whether the association was there on arrival.
TaskAddLabel(u, taskID, labelID, fault) ==
    LET task == TaskGetByID(taskID)
        column == ColumnGetByID(task.column_id)
        access == taskBoardAccess(column, u, fault - 1)
        added == RepoAddLabel(taskID, labelID)
        resp(status) == [op |-> "TaskAddLabel", principal |-> u,
                         task |-> taskID, label |-> labelID,
                         attached |-> RowsOf(taskID, labelID) # {},
                         status |-> status]
    IN /\ u \in users
       /\ UNCHANGED <<labels, users, boards, shares, columns, tasks, reqs>>
       /\ IF fault = 1
          THEN last' = resp(StatusInternalServerError) /\ UNCHANGED task_labels
          ELSE IF task = NoTask
          THEN last' = resp(StatusNotFound) /\ UNCHANGED task_labels
          ELSE IF access.err
          THEN last' = resp(StatusInternalServerError) /\ UNCHANGED task_labels
          ELSE IF ~access.ok
          THEN last' = resp(StatusForbidden) /\ UNCHANGED task_labels
          ELSE IF fault = 6 \/ added.err
          THEN last' = resp(StatusInternalServerError) /\ UNCHANGED task_labels
          ELSE /\ last' = resp(StatusOK)
               /\ task_labels' = added.rows

\* DELETE /tasks/:id/labels/:label_id, with the faults of TaskAddLabel
TaskRemoveLabel(u, taskID, labelID, fault) ==
    LET task == TaskGetByID(taskID)
        column == ColumnGetByID(task.column_id)
        access == taskBoardAccess(column, u, fault - 1)
        removed == RepoRemoveLabel(taskID, labelID)
        resp(status) == [op |-> "TaskRemoveLabel", principal |-> u,
                         task |-> taskID, label |-> labelID,
                         attached |-> RowsOf(taskID, labelID) # {},
                         status |-> status]
    IN /\ u \in users
       /\ UNCHANGED <<labels, users, boards, shares, columns, tasks, reqs>>
       /\ IF fault = 1
          THEN last' = resp(StatusInternalServerError) /\ UNCHANGED task_labels
          ELSE IF task = NoTask
          THEN last' = resp(StatusNotFound) /\ UNCHANGED task_labels
          ELSE IF access.err
          THEN last' = resp(StatusInternalServerError) /\ UNCHANGED task_labels
          ELSE IF ~access.ok
          THEN last' = resp(StatusForbidden) /\ UNCHANGED task_labels
          ELSE IF fault = 6 \/ removed.err
          THEN last' = resp(StatusInternalServerError) /\ UNCHANGED task_labels
          ELSE /\ last' = resp(StatusOK)
               /\ task_labels' = removed.rows

(***************************************************************************)
(* TaskHandler.AssignUser                                                  *)
(***************************************************************************)
\* UPDATE tasks SET assigned_to = ? WHERE id = ?
RepoAssignUser(taskID, userID) ==
    {IF t.id = taskID THEN [t EXCEPT !.assigned_to = userID] ELSE t :
        t \in tasks}

TaskAssignUser(u, taskID, assigneeID, fault) ==
    LET task == TaskGetByID(taskID)
        column == ColumnGetByID(task.column_id)
        access == taskBoardAccess(column, u, fault - 1)
        resp(status) == [op |-> "TaskAssignUser", principal |-> u,
                         task |-> taskID, assignee |-> assigneeID,
                         status |-> status]
    IN /\ u \in users
       /\ UNCHANGED <<labels, task_labels, users, boards, shares, columns, reqs>>
       /\ IF fault = 1
          THEN last' = resp(StatusInternalServerError) /\ UNCHANGED tasks
          ELSE IF task = NoTask
          THEN last' = resp(StatusNotFound) /\ UNCHANGED tasks
          ELSE IF access.err
          THEN last' = resp(StatusInternalServerError) /\ UNCHANGED tasks
          ELSE IF ~access.ok
          THEN last' = resp(StatusForbidden) /\ UNCHANGED tasks
          ELSE IF fault = 6
          THEN last' = resp(StatusInternalServerError) /\ UNCHANGED tasks
          ELSE IF assigneeID \notin users
          THEN last' = resp(StatusNotFound) /\ UNCHANGED tasks
          ELSE IF fault = 7
          THEN last' = resp(StatusInternalServerError) /\ UNCHANGED tasks
          ELSE /\ last' = resp(StatusOK)
               /\ tasks' = RepoAssignUser(taskID, assigneeID)

(***************************************************************************)
(* LabelHandler.Delete, and the deletion of a board row.  No route deletes *)
(* a board; DeleteBoardRow is the statement DELETE FROM boards WHERE id = ? *)
(* as the foreign keys of the schema resolve it.                            *)
(***************************************************************************)
NoLabel == [id |-> Nil, board_id |-> Nil, name |-> ""]

LabelGetByID(id) ==
    IF \E l \in labels : l.id = id
    THEN CHOOSE l \in labels : l.id = id
    ELSE NoLabel

\* DELETE FROM labels WHERE id = ?; task_labels.label_id is ON DELETE CASCADE
LabelRepoDelete(id) == {l \in labels : l.id # id}

CascadeLabelRows(ls) ==
    {tl \in task_labels : \E l \in ls : l.id = tl.label_id}

LabelDelete(u, labelID, fault) ==
    LET label == LabelGetByID(labelID)
        board == GetByID(label.board_id)
        hasAccess == CheckAccess(label.board_id, u, RoleEditor, fault - 2)
        resp(status) == [op |-> "LabelDelete", principal |-> u,
                         label |-> labelID,
                         attached |-> \E tl \in task_labels :
                                          tl.label_id = labelID,
                         status |-> status]
    IN /\ u \in users
       /\ UNCHANGED <<users, boards, shares, columns, tasks, reqs>>
       /\ IF label = NoLabel
          THEN last' = resp(StatusNotFound) /\ UNCHANGED <<labels, task_labels>>
          ELSE IF fault \in {1, 2} \/ hasAccess.err
          THEN /\ last' = resp(StatusInternalServerError)
               /\ UNCHANGED <<labels, task_labels>>
          ELSE IF ~hasAccess.ok /\ board.owner_id # u
          THEN last' = resp(StatusForbidden) /\ UNCHANGED <<labels, task_labels>>
          ELSE IF fault = 5
          THEN /\ last' = resp(StatusInternalServerError)
               /\ UNCHANGED <<labels, task_labels>>
          ELSE /\ last' = resp(StatusOK)
               /\ labels' = LabelRepoDelete(labelID)
               /\ task_labels' = CascadeLabelRows(labels')

DeleteBoardRow(boardID) ==
    /\ \E b \in boards : b.id = boardID
    /\ boards' = {b \in boards : b.id # boardID}
    /\ shares' = {s \in shares : s.board_id # boardID}
    /\ columns' = {c \in columns : c.board_id # boardID}
    /\ labels' = {l \in labels : l.board_id # boardID}
    /\ tasks' = {t \in tasks : \E c \in columns' : c.id = t.column_id}
    /\ task_labels' = CascadeTaskLabels(tasks') \cap CascadeLabelRows(labels')
    /\ last' = [op |-> "DeleteBoardRow", board |-> boardID,
                columns |-> Cardinality(GetByBoardID(boardID))]
    /\ UNCHANGED <<users, reqs>>

(***************************************************************************)
(* A bulk reorder, statement by statement: the handler's checks, then      *)
(* ColumnRepository.ReorderColumns, one UPDATE per element of the request  *)
(* on the handle tx of one db.Transaction.                                 *)
(***************************************************************************)
\* the handler of POST /boards/:id/columns/reorder up to the call of
\* ReorderColumns: the status it answers, 0 if it goes on to the call
ReorderPrecheckAnyBoard(u, boardID, updates) ==
    LET access == checkBoardAccess(boardID, u, RoleEditor, 0)
        existingColumns == GetByIDs(SeqIds(updates))
    IN IF ~access.ok THEN StatusForbidden
       ELSE IF Cardinality(existingColumns) # Len(updates)
       THEN StatusBadRequest
       ELSE 0

ReorderPrecheck(u, boardID, updates) ==
    LET access == checkBoardAccess(boardID, u, RoleEditor, 0)
        existingColumns == GetByIDs(SeqIds(updates))
    IN IF ~access.ok THEN StatusForbidden
       ELSE IF Cardinality(existingColumns) # Len(updates)
       THEN StatusBadRequest
       ELSE IF \E c \in existingColumns : c.board_id # boardID
       THEN StatusBadRequest
       ELSE 0

ReorderBegin(r, u, boardID, updates) ==
    LET pre == ReorderPrecheck(u, boardID, updates)
    IN /\ reqs[r].pc = "idle"
       /\ u \in users
       /\ reqs' = [reqs EXCEPT ![r] =
              [Idle EXCEPT !.op = "ReorderColumns", !.principal = u,
                           !.board = boardID, !.updates = updates,
                           !.pc = IF pre # 0 THEN "done"
                                  ELSE IF updates = <<>> THEN "commit"
                                  ELSE "reorder",
                           !.status = pre]]
       /\ UNCHANGED <<labels, task_labels, users, boards, shares, columns, tasks, last>>

\* tx.Model(&model.Column{}).Where("id = ?", column.ID)
\*     .Update("position", column.Position), for the next element
ReorderUpdate(r) ==
    LET update == reqs[r].updates[reqs[r].count + 1]
        view == Overlay(columns, reqs[r].writes)
    IN /\ reqs[r].pc = "reorder"
       /\ reqs' = [reqs EXCEPT
              ![r].count = @ + 1,
              ![r].writes = Overlay(@, {[c EXCEPT !.position = update.position] :
                                           c \in {c \in view : c.id = update.id}}),
              ![r].pc = IF reqs[r].count + 1 = Len(reqs[r].updates)
                        THEN "commit" ELSE "reorder"]
       /\ UNCHANGED <<labels, task_labels, users, boards, shares, columns, tasks, last>>

\* the transaction commits and the handler answers
ReorderCommit(r) ==
    /\ reqs[r].pc = "commit"
    /\ reqs[r].op = "ReorderColumns"
    /\ columns' = Overlay(columns, reqs[r].writes)
    /\ reqs' = [reqs EXCEPT ![r].pc = "done", ![r].status = StatusOK]
    /\ UNCHANGED <<labels, task_labels, users, boards, shares, tasks, last>>

\* an UPDATE fails: the transaction is rolled back, the handler answers 500
ReorderFail(r) ==
    /\ reqs[r].pc = "reorder"
    /\ columns' = Rollback(columns, reqs[r].writes)
    /\ reqs' = [reqs EXCEPT ![r].pc = "done",
                            ![r].status = StatusInternalServerError]
    /\ UNCHANGED <<labels, task_labels, users, boards, shares, tasks, last>>

(***************************************************************************)
(* A database the access layer reaches: every user registered, board 1 of  *)
(* user 1 and board 2 of user 2, and user 2 holding no share, a viewer     *)
(* share or an editor share on board 1.                                    *)
(***************************************************************************)
SharedBoards ==
    /\ users = UserIds
    /\ boards = {[id |-> 1, owner_id |-> 1, title |-> "a"],
                 [id |-> 2, owner_id |-> 2, title |-> "a"]}
    /\ shares \in {{},
                   {[id |-> 0, board_id |-> 1, user_id |-> 2, role |-> RoleViewer]},
                   {[id |-> 0, board_id |-> 1, user_id |-> 2, role |-> RoleEditor]}}

(***************************************************************************)
(* SpecColumns: the column requests on two boards, one request at a time.  *)
(***************************************************************************)
InitColumns ==
    /\ SharedBoards
    /\ columns = {}
    /\ tasks = {}
    /\ labels = {}
    /\ task_labels = {}
    /\ last = [op |-> "none"]
    /\ reqs = [r \in Slots |-> Idle]

\* The request lists of ReorderColumns: every list that names each column
\* at most once (in the order of the identifiers: the UPDATEs of such a
\* list touch different rows, so their order does not matter), and the
\* lists that name one column twice.
RECURSIVE ListsOver(_)
ListsOver(ids) ==
    IF ids = {} THEN {<<>>}
    ELSE LET m == Max(ids)
             rest == ListsOver(ids \ {m})
         IN rest \cup {Append(l, [id |-> m, position |-> pos]) :
                           l \in rest, pos \in Positions}

ColumnUpdates ==
    ListsOver(ColumnIds)
        \cup {<<[id |-> c, position |-> 0], [id |-> c, position |-> 1]>> :
                 c \in ColumnIds}

PositionsCapped == \A c \in columns' : c.position <= PosCap

\* The requests are those of user 2, who owns board 2 and is an outsider,
\* a viewer or an editor on board 1.
Collaborator == (CHOOSE b \in boards : b.id # 1).owner_id

NextColumns ==
    \/ \E b \in 1..2, pos \in Positions :
           /\ Cardinality(columns) < MaxColumns
           /\ ColumnCreate(Collaborator, b, "a", pos, 0)
           /\ PositionsCapped
    \/ \E c \in ColumnIds, title \in Titles, pos \in Positions :
           ColumnUpdate(Collaborator, c, title, pos, 0)
    \/ \E c \in ColumnIds : ColumnDelete(Collaborator, c, 0)
    \/ \E b \in 1..2, updates \in ColumnUpdates :
           ReorderColumns(Collaborator, b, updates, 0)

SpecColumns == InitColumns /\ [][NextColumns]_vars

(***************************************************************************)
(* SpecTasks: the task requests, one at a time, on boards whose columns    *)
(* were appended by ColumnHandler.Create: columns 1 and 2 on board 1,      *)
(* column 3 on board 2.                                                    *)
(***************************************************************************)
InitTasks ==
    /\ SharedBoards
    /\ columns = {[id |-> 1, board_id |-> 1, title |-> "a", position |-> 1],
                  [id |-> 2, board_id |-> 1, title |-> "a", position |-> 2],
                  [id |-> 3, board_id |-> 2, title |-> "a", position |-> 1]}
    /\ tasks = {}
    /\ labels = {}
    /\ task_labels = {}
    /\ last = [op |-> "none"]
    /\ reqs = [r \in Slots |-> Idle]

TaskPositionsCapped == \A t \in tasks' : t.position <= PosCap

NextTasks ==
    \/ \E c \in ColumnIds, hasPosition \in BOOLEAN, pos \in Positions :
           /\ Cardinality(tasks) < MaxTasks
           /\ hasPosition \/ pos = 0
           /\ TaskCreate(Collaborator, c, "a", hasPosition, pos, 0)
           /\ TaskPositionsCapped
    \/ \E t \in TaskIds, c \in ColumnIds, title \in Titles,
          hasPosition \in BOOLEAN, pos \in Positions :
           /\ hasPosition \/ pos = 0
           /\ TaskUpdate(Collaborator, t, c, title, hasPosition, pos, 0)
           /\ TaskPositionsCapped
    \/ \E t \in TaskIds : TaskDelete(Collaborator, t, 0)
    \/ \E t \in TaskIds, c \in ColumnIds, pos \in Positions :
           /\ TaskMove(Collaborator, t, c, pos, 0)
           /\ TaskPositionsCapped

SpecTasks == InitTasks /\ [][NextTasks]_vars

(***************************************************************************)
(* SpecMove: task moves through POST /tasks/:id/move and PUT /tasks/:id,   *)
(* statement by statement, one request after the other.  The tasks were    *)
(* appended by TaskHandler.Create: tasks 1 .. n to column 1, the others to *)
(* column 2.                                                               *)
(***************************************************************************)
TaskLayout(n) ==
    {[id |-> i, column_id |-> IF i <= n THEN 1 ELSE 2, title |-> "a",
      position |-> IF i <= n THEN i - 1 ELSE i - n - 1,
      created_by |-> Collaborator, assigned_to |-> Nil] : i \in TaskIds}

InitMove ==
    /\ SharedBoards
    /\ \E s \in shares : s.role = RoleEditor
    /\ columns = {[id |-> 1, board_id |-> 1, title |-> "a", position |-> 1],
                  [id |-> 2, board_id |-> 1, title |-> "a", position |-> 2],
                  [id |-> 3, board_id |-> 2, title |-> "a", position |-> 1]}
    /\ tasks \in {TaskLayout(n) : n \in 0..MaxTasks}
    /\ labels = {}
    /\ task_labels = {}
    /\ last = [op |-> "none"]
    /\ reqs = [r \in Slots |-> Idle]

\* the slot of the next request when requests are served one at a time
NextSlot(r) == \A o \in Slots : o < r => reqs[o].pc = "done"

TxSteps ==
    \E r \in Slots :
        \/ TaskUpdateSave(r)
        \/ MoveTaskFirst(r)
        \/ MoveTaskShiftOld(r)
        \/ MoveTaskShiftNew(r)
        \/ MoveTaskShift(r)
        \/ MoveTaskSave(r)
        \/ MoveTaskCommit(r)
        \/ MoveTaskFail(r)

NextMove ==
    \/ \E r \in Slots, t \in TaskIds, c \in ColumnIds, pos \in Positions :
           /\ NextSlot(r)
           /\ TaskMoveBegin(r, Collaborator, t, c, pos)
    \/ \E r \in Slots, t \in TaskIds, c \in ColumnIds,
          hasPosition \in BOOLEAN, pos \in Positions :
           /\ NextSlot(r)
           /\ hasPosition \/ pos = 0
           /\ TaskUpdateBegin(r, Collaborator, t, c, "a", hasPosition, pos)
    \/ TxSteps

SpecMove == InitMove /\ [][NextMove]_vars

(***************************************************************************)
(* SpecMoveRace: the requests of SpecMove served concurrently: a request   *)
(* may arrive while the transaction of another one is open.                *)
(***************************************************************************)
\* slots are taken in order
Arrived(r) == \A o \in Slots : o < r => reqs[o].pc # "idle"

NextMoveRace ==
    \/ \E r \in Slots, t \in TaskIds, c \in ColumnIds, pos \in Positions :
           /\ Arrived(r)
           /\ TaskMoveBegin(r, Collaborator, t, c, pos)
    \/ \E r \in Slots, t \in TaskIds, c \in ColumnIds,
          hasPosition \in BOOLEAN, pos \in Positions :
           /\ Arrived(r)
           /\ hasPosition \/ pos = 0
           /\ TaskUpdateBegin(r, Collaborator, t, c, "a", hasPosition, pos)
    \/ TxSteps

SpecMoveRace == InitMove /\ [][NextMoveRace]_vars

(***************************************************************************)
(* SpecMoveLive: concurrent moves through POST /tasks/:id/move under the   *)
(* scheduling of the server: every request is served by a goroutine of its *)
(* own that runs on whenever its next statement is not waiting for a lock, *)
(* and the deadlock detector of the store runs.  A statement may also fail *)
(* for any other reason; nothing forces that to happen.                    *)
(***************************************************************************)
Forward(r) ==
    \/ MoveTaskFirst(r)
    \/ MoveTaskShiftOld(r)
    \/ MoveTaskShiftNew(r)
    \/ MoveTaskShift(r)
    \/ MoveTaskSave(r)
    \/ MoveTaskCommit(r)

NextMoveLive ==
    \/ \E r \in Slots, t \in TaskIds, c \in ColumnIds, pos \in Positions :
           /\ Arrived(r)
           /\ TaskMoveBegin(r, Collaborator, t, c, pos)
    \/ \E r \in Slots : Forward(r)
    \/ \E r \in Slots : DeadlockAbort(r)
    \/ \E r \in Slots : MoveTaskFail(r)

SpecMoveLive ==
    /\ InitMove
    /\ [][NextMoveLive]_vars
    /\ \A r \in Slots : WF_vars(Forward(r))
    /\ \A r \in Slots : WF_vars(DeadlockAbort(r))

(***************************************************************************)
(* SpecDeleteRace: task moves and task deletions served concurrently.      *)
(***************************************************************************)
NextDeleteRace ==
    \/ \E r \in Slots, t \in TaskIds, c \in ColumnIds, pos \in Positions :
           /\ Arrived(r)
           /\ TaskMoveBegin(r, Collaborator, t, c, pos)
    \/ \E r \in Slots, t \in TaskIds :
           /\ Arrived(r)
           /\ TaskDeleteBegin(r, Collaborator, t)
    \/ \E r \in Slots :
           \/ TaskDeleteExec(r)
           \/ MoveTaskFirst(r)
           \/ MoveTaskShiftOld(r)
           \/ MoveTaskShiftNew(r)
           \/ MoveTaskShift(r)
           \/ MoveTaskSave(r)
           \/ MoveTaskCommit(r)
           \/ MoveTaskFail(r)

SpecDeleteRace == InitMove /\ [][NextDeleteRace]_vars

(***************************************************************************)
(* SpecAccessFault: task moves, one request at a time, served without a    *)
(* fault (0) or with the first (4) or the second (5) query of CheckAccess  *)
(* failing.                                                                *)
(***************************************************************************)
MoveFaults == {0, 4, 5}

NextAccessFault ==
    \E t \in TaskIds, c \in ColumnIds, pos \in Positions, fault \in MoveFaults :
        /\ TaskMove(Collaborator, t, c, pos, fault)
        /\ TaskPositionsCapped

SpecAccessFault == InitMove /\ [][NextAccessFault]_vars

(***************************************************************************)
(* SpecReorder: bulk reorders, statement by statement, one request after   *)
(* the other, on boards whose columns were appended by                     *)
(* ColumnHandler.Create.                                                   *)
(***************************************************************************)
InitReorder ==
    /\ SharedBoards
    /\ \E s \in shares : s.role = RoleEditor
    /\ columns = {[id |-> 1, board_id |-> 1, title |-> "a", position |-> 1],
                  [id |-> 2, board_id |-> 1, title |-> "a", position |-> 2],
                  [id |-> 3, board_id |-> 2, title |-> "a", position |-> 1]}
    /\ tasks = {}
    /\ labels = {}
    /\ task_labels = {}
    /\ last = [op |-> "none"]
    /\ reqs = [r \in Slots |-> Idle]

NextReorder ==
    \/ \E r \in Slots, b \in 1..2, updates \in ColumnUpdates :
           /\ NextSlot(r)
           /\ ReorderBegin(r, Collaborator, b, updates)
    \/ \E r \in Slots : ReorderUpdate(r)
    \/ \E r \in Slots : ReorderCommit(r)
    \/ \E r \in Slots : ReorderFail(r)

SpecReorder == InitReorder /\ [][NextReorder]_vars

(***************************************************************************)
(* SpecLabels: labels attached to and detached from the tasks of two       *)
(* boards, one request at a time; a task may be deleted meanwhile.         *)
(***************************************************************************)
InitLabels ==
    /\ SharedBoards
    /\ columns = {[id |-> 1, board_id |-> 1, title |-> "a", position |-> 1],
                  [id |-> 2, board_id |-> 1, title |-> "a", position |-> 2],
                  [id |-> 3, board_id |-> 2, title |-> "a", position |-> 1]}
    /\ tasks = {[id |-> 1, column_id |-> 1, title |-> "a", position |-> 0,
                 created_by |-> Collaborator, assigned_to |-> Nil],
                [id |-> 2, column_id |-> 3, title |-> "a", position |-> 0,
                 created_by |-> Collaborator, assigned_to |-> Nil]}
    /\ \E n \in 1..MaxLabels :
           labels = {[id |-> l, board_id |-> 1, name |-> "a"] : l \in 1..n}
    /\ task_labels = {}
    /\ last = [op |-> "none"]
    /\ reqs = [r \in Slots |-> Idle]

NextLabels ==
    \/ \E t \in TaskIds, l \in LabelIds : TaskAddLabel(Collaborator, t, l, 0)
    \/ \E t \in TaskIds, l \in LabelIds : TaskRemoveLabel(Collaborator, t, l, 0)
    \/ \E t \in TaskIds : TaskDelete(Collaborator, t, 0)

SpecLabels == InitLabels /\ [][NextLabels]_vars

(***************************************************************************)
(* SpecCascade: deletes of columns, tasks, labels and boards on the state  *)
(* of SpecLabels, with labels attached in between.                         *)
(***************************************************************************)
NextCascade ==
    \/ \E u \in UserIds, t \in TaskIds, l \in LabelIds :
           TaskAddLabel(u, t, l, 0)
    \/ \E u \in UserIds, c \in ColumnIds : ColumnDelete(u, c, 0)
    \/ \E u \in UserIds, t \in TaskIds : TaskDelete(u, t, 0)
    \/ \E u \in UserIds, l \in LabelIds : LabelDelete(u, l, 0)
    \/ \E b \in BoardIds : DeleteBoardRow(b)

SpecCascade == InitLabels /\ [][NextCascade]_vars

(***************************************************************************)
(* SpecAssign: users assigned to the tasks of the two boards of            *)
(* SpecLabels, one request at a time.                                      *)
(***************************************************************************)
NextAssign ==
    \/ \E u \in UserIds, t \in TaskIds, a \in UserIds :
           TaskAssignUser(u, t, a, 0)
    \/ \E u \in UserIds, t \in TaskIds : TaskDelete(u, t, 0)

SpecAssign == InitLabels /\ [][NextAssign]_vars

(***************************************************************************)
(* SpecRetitle: PUT /tasks/:id on the tasks of SpecLabels, with a title    *)
(* the task carries and one it does not, one request at a time.            *)
(***************************************************************************)
NextRetitle ==
    \E u \in UserIds, t \in TaskIds, c \in ColumnIds, title \in {"a", "b"},
       hasPosition \in BOOLEAN, pos \in Positions :
        /\ hasPosition \/ pos = 0
        /\ TaskUpdate(u, t, c, title, hasPosition, pos, 0)
        /\ TaskPositionsCapped

SpecRetitle == InitLabels /\ [][NextRetitle]_vars

(***************************************************************************)
(* SpecCreateFault: POST /tasks one request at a time, where any query of  *)
(* the handler may fail: fault = k makes its k-th query return an error.   *)
(***************************************************************************)
CreateFaults == 0..7

NextCreateFault ==
    \E u \in UserIds, c \in ColumnIds, title \in Titles,
       hasPosition \in BOOLEAN, pos \in Positions, fault \in CreateFaults :
        /\ Cardinality(tasks) < MaxTasks
        /\ hasPosition \/ pos = 0
        /\ TaskCreate(u, c, title, hasPosition, pos, fault)

SpecCreateFault == InitTasks /\ [][NextCreateFault]_vars

(***************************************************************************)
(* SpecCreateRace: task creation with up to MaxInFlight requests served    *)
(* concurrently on the columns of InitTasks.                               *)
(***************************************************************************)
Creating == {r \in Slots : reqs[r].op = "TaskCreate" /\ reqs[r].pc = "create"}

NextCreateRace ==
    \/ \E r \in Slots, c \in ColumnIds, hasPosition \in BOOLEAN,
          pos \in Positions :
           /\ Arrived(r)
           /\ hasPosition \/ pos = 0
           /\ Cardinality(tasks) + Cardinality(Creating) < MaxTasks
           /\ TaskCreateBegin(r, Collaborator, c, "a", hasPosition, pos)
    \/ \E r \in Slots : TaskCreateInsert(r)

SpecCreateRace == InitTasks /\ [][NextCreateRace]_vars

(***************************************************************************)
(* Spec: the access-control layer, one request at a time: registration,    *)
(* board creation, sharing, unsharing and the board read.  Requests name   *)
(* boards that exist and boards that do not.                               *)
(***************************************************************************)
AccessBoardIds == 1..MaxBoards

Next ==
    \/ \E email \in UserIds : Register(email, 0)
    \/ \E u \in UserIds :
           /\ Cardinality(boards) < MaxBoards
           /\ BoardCreate(u, "a", 0)
    \/ \E u \in UserIds, b \in AccessBoardIds, fault \in 0..3 :
           BoardGetByID(u, b, fault)
    \/ \E u \in UserIds, b \in AccessBoardIds, email \in UserIds,
          role \in RequestRoles :
           ShareBoard(u, b, email, role, 0)
    \/ \E u \in UserIds, b \in AccessBoardIds, t \in UserIds :
           RemoveShare(u, b, t, 0)

Spec == Init /\ [][Next]_vars

(***************************************************************************)
(* SpecNoBoard: column requests on a database that starts empty, so that   *)
(* a request may name a board no row exists for.                           *)
(***************************************************************************)
NextNoBoard ==
    \/ \E email \in UserIds : Register(email, 0)
    \/ \E u \in UserIds :
           /\ Cardinality(boards) < MaxBoards
           /\ BoardCreate(u, "a", 0)
    \/ \E u \in UserIds, b \in AccessBoardIds :
           /\ Cardinality(columns) < MaxColumns
           /\ ColumnCreate(u, b, "a", 0, 0)
    \/ \E u \in UserIds, b \in AccessBoardIds, updates \in ColumnUpdates :
           ReorderColumns(u, b, updates, 0)

SpecNoBoard == Init /\ [][NextNoBoard]_vars

(***************************************************************************)
(* SpecAuth: registration and board creation behind the authentication     *)
(* middleware, with every kind of token.                                   *)
(***************************************************************************)
NextAuth ==
    \/ \E email \in UserIds : Register(email, 0)
    \/ \E token \in Tokens :
           /\ Cardinality(boards) < MaxBoardsCap
           /\ AuthorizedBoardCreate(token, "a")

SpecAuth == Init /\ [][NextAuth]_vars

(***************************************************************************)
(* SpecBoardCap: registration and board creation up to the per-user cap,   *)
(* with valid and invalid request bodies and failing queries.              *)
(***************************************************************************)
NextBoardCap ==
    \/ \E email \in UserIds, fault \in 0..2 : Register(email, fault)
    \/ \E u \in UserIds, title \in Titles, fault \in 0..2 :
           /\ Cardinality(boards) < MaxBoardsCap
           /\ BoardCreate(u, title, fault)

SpecBoardCap == Init /\ [][NextBoardCap]_vars

(***************************************************************************)
(* SpecBoardRace: board creation with up to MaxInFlight requests served    *)
(* concurrently, after any number of requests served one at a time.        *)
(***************************************************************************)
NextBoardRace ==
    \/ \E email \in UserIds : Register(email, 0)
    \/ \E u \in UserIds :
           /\ Cardinality(boards) < MaxBoardsCap
           /\ BoardCreate(u, "a", 0)
    \/ \E r \in Slots, u \in UserIds, title \in Titles :
           BoardCreateCount(r, u, title)
    \/ \E r \in Slots : BoardCreateInsert(r)

SpecBoardRace == Init /\ [][NextBoardRace]_vars

(***************************************************************************)
(* SpecShareRace: up to MaxInFlight ShareBoard requests served             *)
(* concurrently on the boards of registered users.                         *)
(***************************************************************************)
NextShareRace ==
    \/ \E email \in UserIds : Register(email, 0)
    \/ \E u \in UserIds :
           /\ Cardinality(boards) < MaxBoards
           /\ BoardCreate(u, "a", 0)
    \/ \E r \in Slots, u \in UserIds, b \in AccessBoardIds,
          email \in UserIds, role \in RequestRoles :
           ShareBoardBegin(r, u, b, email, role)
    \/ \E r \in Slots : ShareBoardLookup(r)
    \/ \E r \in Slots : ShareBoardWrite(r)
    \/ \E r \in Slots : ShareBoardCommit(r)

SpecShareRace == Init /\ [][NextShareRace]_vars

(***************************************************************************)
(* Properties                                                              *)
(***************************************************************************)
Denied(res) == ~res.ok /\ ~res.err

Allowed(res) == res.ok /\ ~res.err

OwnerOf(boardID) == (CHOOSE b \in boards : b.id = boardID).owner_id

\* C1: on every board the positions of the N columns are exactly
\* 0 .. N-1, after any sequence of successful column requests.
ColumnPositionsDense ==
    \A b \in boards :
        /\ {c.position : c \in GetByBoardID(b.id)}
               = 0..(Cardinality(GetByBoardID(b.id)) - 1)
        /\ \A c1 \in GetByBoardID(b.id), c2 \in GetByBoardID(b.id) :
               c1.position = c2.position => c1 = c2

\* C2: in every column the positions of the N tasks are exactly 0 .. N-1,
\* after any sequence of successful task requests.
TaskPositionsDense ==
    \A c \in columns :
        /\ {t.position : t \in GetByColumnID(c.id)}
               = 0..(Cardinality(GetByColumnID(c.id)) - 1)
        /\ \A t1 \in GetByColumnID(c.id), t2 \in GetByColumnID(c.id) :
               t1.position = t2.position => t1 = t2

\* C3: after any sequence of ShareBoard and RemoveShare requests the owner
\* of every board passes the access check for the viewer and for the
\* editor role although board_shares holds no row for the owner; a failing
\* query turns the answer into an error, never into a denial.
OwnerAlwaysAuthorized ==
    \A b \in boards : \A role \in Roles :
        /\ RowCount(b.id, b.owner_id) = 0
        /\ Allowed(CheckAccess(b.id, b.owner_id, role, 0))
        /\ Allowed(checkBoardAccess(b.id, b.owner_id, role, 0))
        /\ \A fail \in 1..2 : ~Denied(CheckAccess(b.id, b.owner_id, role, fail))

\* A RemoveShare that names the owner as target has succeeded on a board
\* that is shared with somebody.
OwnerUnshareServed ==
    /\ last.op = "RemoveShare"
    /\ last.status = StatusOK
    /\ last.target = OwnerOf(last.board)
    /\ \E s \in shares : s.board_id = last.board

\* C4: a principal who is refused the viewer role on a board is refused
\* the editor role on it in the same state.
AccessMonotonicity ==
    \A p \in UserIds, b \in AccessBoardIds, fail \in 0..2 :
        ~CheckAccess(b, p, RoleViewer, fail).ok
            => ~CheckAccess(b, p, RoleEditor, fail).ok

\* A registered user who has just lost the share on a board is refused the
\* viewer role on it.
ViewerDeniedReached ==
    /\ last.op = "RemoveShare"
    /\ last.status = StatusOK
    /\ last.removed # {}
    /\ last.target \in users
    /\ Denied(CheckAccess(last.board, last.target, RoleViewer, 0))

\* C5: for a non-owner who holds a share, the viewer check succeeds for
\* either stored role and the editor check succeeds exactly when the
\* stored role is editor.
ShareRoleOrdering ==
    \A s \in shares :
        s.user_id # OwnerOf(s.board_id) =>
            /\ s.role \in Roles
            /\ Allowed(CheckAccess(s.board_id, s.user_id, RoleViewer, 0))
            /\ Allowed(CheckAccess(s.board_id, s.user_id, RoleEditor, 0))
                   <=> (s.role = RoleEditor)

\* A non-owner holds a viewer share: the viewer check passes and the
\* editor check is refused.
ViewerShareHeld ==
    \E s \in shares :
        /\ s.role = RoleViewer
        /\ s.user_id # OwnerOf(s.board_id)
        /\ Allowed(CheckAccess(s.board_id, s.user_id, RoleViewer, 0))
        /\ Denied(CheckAccess(s.board_id, s.user_id, RoleEditor, 0))

\* C6: a board read by a principal who neither owns the board nor holds a
\* share on it never carries the board, and is answered NotFound or
\* Forbidden whenever the persistence layer answered the handler's queries.
OutsiderReadsNothing ==
    (/\ last.op = "BoardGetByID"
     /\ GetByID(last.board) # NoBoard
     /\ OwnerOf(last.board) # last.principal
     /\ SharesOf(last.board, last.principal) = {})
        => /\ last.body = NoBoard
           /\ last.status # StatusOK
           /\ last.fault = 0
                  => last.status \in {StatusNotFound, StatusForbidden}

\* A registered user who neither owns the board nor holds a share on it
\* asked for the board and was refused.
OutsiderRefused ==
    /\ last.op = "BoardGetByID"
    /\ last.status = StatusForbidden
    /\ GetByID(last.board) # NoBoard
    /\ OwnerOf(last.board) # last.principal
    /\ SharesOf(last.board, last.principal) = {}

\* C7: when the owner shares a board with a user a second time with a
\* different role, one row exists for the pair afterwards and it carries
\* the role of the later request.
ShareUpsert ==
    (last.op = "ShareBoard" /\ last.status = StatusOK) =>
        /\ RowCount(last.board, last.target) = 1
        /\ \A s \in SharesOf(last.board, last.target) : s.role = last.role

\* A share request succeeded on a pair that held the other role before.
ReShareServed ==
    /\ last.op = "ShareBoard"
    /\ last.status = StatusOK
    /\ last.before # {}
    /\ last.role \notin last.before

\* C8: two concurrent ShareBoard requests for one (board, user) pair never
\* both find the share absent and both issue the INSERT, and once both have
\* finished the pair has at most one row.
ShareUpsertAtomic ==
    /\ \A r1 \in Slots, r2 \in Slots :
           (/\ r1 # r2
            /\ reqs[r1].op = "ShareBoard"
            /\ reqs[r2].op = "ShareBoard"
            /\ SamePair(r1, r2))
               => ~(/\ reqs[r1].stmt = "insert" /\ reqs[r1].seen = {}
                    /\ reqs[r2].stmt = "insert" /\ reqs[r2].seen = {})
    /\ (\A r \in Slots : ~InFlight(r))
           => \A b \in AccessBoardIds, u \in UserIds : RowCount(b, u) <= 1

\* C9: no user owns more than MaxBoardsPerUser boards, whatever the
\* interleaving of the user's concurrent Create requests.
BoardCapHolds ==
    \A u \in UserIds : CountOwned(u) <= MaxBoardsPerUser

\* C10: a board Create by a user who owns MaxBoardsPerUser boards leaves
\* the number of boards the user owns unchanged and is answered Forbidden
\* (a server error if the count query itself failed).
CapRejects ==
    [][\A u \in UserIds :
          (/\ last'.op = "BoardCreate"
           /\ last'.principal = u
           /\ CountOwned(u) >= MaxBoardsPerUser)
              => /\ CountOwned(u)' = CountOwned(u)
                 /\ last'.status = IF last'.fault = 1
                                   THEN StatusInternalServerError
                                   ELSE StatusForbidden]_vars

\* The sixth board of a user was refused.
SixthBoardRefused ==
    /\ last.op = "BoardCreate"
    /\ last.status = StatusForbidden
    /\ CountOwned(last.principal) = MaxBoardsPerUser

\* C11: a successful delete of the column at position p leaves every other
\* column in place, moved down by one exactly when it belongs to the same
\* board and stood above p.
DeleteClosesGap ==
    [][(last'.op = "ColumnDelete" /\ last'.status = StatusOK) =>
           \A c \in columns :
               c.id # last'.id =>
                   \E d \in columns' :
                       /\ d.id = c.id
                       /\ d.position =
                              IF c.board_id = last'.board
                                     /\ c.position > last'.position
                              THEN c.position - 1
                              ELSE c.position]_vars

\* the positions of the tasks of a column in table ts are 0 .. M-1, each once
DenseIn(ts, columnID) ==
    LET col == {t \in ts : t.column_id = columnID}
    IN /\ {t.position : t \in col} = 0..(Cardinality(col) - 1)
       /\ \A t1 \in col, t2 \in col : t1.position = t2.position => t1 = t2

\* request r is at the commit of its MoveTask transaction
Committing(r) ==
    /\ reqs[r].pc = "commit"
    /\ reqs[r].op \in {"TaskMove", "TaskUpdate"}
    /\ reqs'[r].pc = "done"

\* C12: a move of a task from position q of column A to position p of
\* another column B, 0 <= p <= number of tasks of B, both columns gap-free
\* and duplicate-free before: the tasks of A above q go down by one, the
\* tasks of B at p or above go up by one, the moved task is in B at p, no
\* other row changes, and A and B are gap-free and duplicate-free after.
CrossColumnMove ==
    [][\A r \in Slots :
          (/\ Committing(r)
           /\ OldRow(r).column_id # reqs[r].column
           /\ reqs[r].position
                  \in 0..Cardinality(GetByColumnID(reqs[r].column))
           /\ DenseIn(tasks, OldRow(r).column_id)
           /\ DenseIn(tasks, reqs[r].column))
              => /\ tasks' =
                       {IF t.id = reqs[r].task
                        THEN [t EXCEPT !.column_id = reqs[r].column,
                                       !.position = reqs[r].position]
                        ELSE IF t.column_id = OldRow(r).column_id
                                    /\ t.position > OldRow(r).position
                        THEN [t EXCEPT !.position = @ - 1]
                        ELSE IF t.column_id = reqs[r].column
                                    /\ t.position >= reqs[r].position
                        THEN [t EXCEPT !.position = @ + 1]
                        ELSE t : t \in tasks}
                 /\ DenseIn(tasks', OldRow(r).column_id)
                 /\ DenseIn(tasks', reqs[r].column)]_vars

\* The first request moved a task out of a column that held a task above
\* it to a position of another column that was taken: three rows written.
CrossColumnMoveServed ==
    /\ reqs[1].pc = "done"
    /\ reqs[1].status = StatusOK
    /\ reqs[2].pc = "idle"
    /\ OldRow(1).column_id # reqs[1].column
    /\ Cardinality(reqs[1].writes) = 3
    /\ DenseIn(tasks, OldRow(1).column_id)
    /\ DenseIn(tasks, reqs[1].column)

\* C13: a move within a gap-free, duplicate-free column of M tasks from
\* position old to position new, both in 0 .. M-1 and different: the tasks
\* at positions in (old, new] go down by one when old < new, the tasks at
\* positions in [new, old) go up by one when old > new, the moved task is
\* at new and every other row is unchanged.
SameColumnMove ==
    [][\A r \in Slots :
          (/\ Committing(r)
           /\ OldRow(r).column_id = reqs[r].column
           /\ OldRow(r).position # reqs[r].position
           /\ reqs[r].position
                  \in 0..(Cardinality(GetByColumnID(reqs[r].column)) - 1)
           /\ DenseIn(tasks, reqs[r].column))
              => /\ tasks' =
                       {IF t.id = reqs[r].task
                        THEN [t EXCEPT !.position = reqs[r].position]
                        ELSE IF t.column_id = reqs[r].column
                                    /\ OldRow(r).position < t.position
                                    /\ t.position <= reqs[r].position
                        THEN [t EXCEPT !.position = @ - 1]
                        ELSE IF t.column_id = reqs[r].column
                                    /\ reqs[r].position <= t.position
                                    /\ t.position < OldRow(r).position
                        THEN [t EXCEPT !.position = @ + 1]
                        ELSE t : t \in tasks}
                 /\ DenseIn(tasks', reqs[r].column)]_vars

\* The first request moved the last of three tasks of a column to the
\* front: the two others went up by one.
SameColumnMoveServed ==
    /\ reqs[1].pc = "done"
    /\ reqs[1].status = StatusOK
    /\ reqs[2].pc = "idle"
    /\ OldRow(1).column_id = reqs[1].column
    /\ OldRow(1).position > reqs[1].position
    /\ Cardinality(reqs[1].writes) = 3
    /\ DenseIn(tasks, reqs[1].column)

\* C14: MoveTask is atomic.  A step of a move's transaction leaves the
\* table of tasks as it is, except the commit, which writes the shifted
\* siblings and the moved task at once; a move that fails after it has
\* shifted rows leaves no trace, and what other requests read never holds
\* part of a move.
MoveAtomic ==
    [][\A r \in Slots :
          (/\ reqs[r].op \in {"TaskMove", "TaskUpdate"}
           /\ reqs[r].pc \in {"first", "shiftold", "shiftnew", "shift",
                              "save", "commit"}
           /\ reqs'[r] # reqs[r])
              => IF Committing(r)
                 THEN /\ reqs'[r].status = StatusOK
                      /\ tasks' = Overlay(tasks, reqs[r].writes)
                      /\ [OldRow(r) EXCEPT !.column_id = reqs[r].column,
                                           !.position = reqs[r].position]
                             \in tasks'
                 ELSE /\ tasks' = tasks
                      /\ reqs'[r].pc = "done"
                             => reqs'[r].status = StatusInternalServerError]_vars

\* The first move failed after it had shifted a sibling, and the table is
\* the one it started from.
MoveRolledBack ==
    /\ reqs[1].pc = "done"
    /\ reqs[1].status = StatusInternalServerError
    /\ reqs[1].writes # {}
    /\ reqs[2].pc = "idle"
    /\ \E n \in 0..MaxTasks : tasks = TaskLayout(n)

\* C15: concurrent moves on one column commit the result of some serial
\* execution of them: once every POST /tasks/:id/move has been answered no
\* two tasks of a column stand at the same position (moves served one
\* after the other never bring two tasks to one position).
MovesSerialized ==
    (\A r \in Slots : ~InFlight(r) /\ reqs[r].op \in {"idle", "TaskMove"}) =>
        \A t1 \in tasks, t2 \in tasks :
            (t1.column_id = t2.column_id /\ t1.position = t2.position)
                => t1 = t2

\* C16: a column created without a position is stored at the position
\* equal to the number of columns its board had before, so the first
\* column of a board gets position 0.
ColumnAppended ==
    [][(/\ last'.op = "ColumnCreate"
        /\ last'.status = StatusCreated
        /\ last'.position = 0)
           => \E c \in columns' \ columns :
                  /\ c.id = last'.id
                  /\ c.position = Cardinality(GetByBoardID(c.board_id))]_vars

\* C17: a task created without a position is stored at the position equal
\* to the number of tasks its column had before.
TaskAppended ==
    [][(/\ last'.op = "TaskCreate"
        /\ last'.status = StatusCreated
        /\ ~last'.explicit)
           => \E t \in tasks' \ tasks :
                  /\ tasks' = tasks \cup {t}
                  /\ t.position = Cardinality(GetByColumnID(t.column_id))]_vars

\* A task was appended to a column that held tasks: the column has two
\* tasks or more and the request carried no position.
TaskAppendServed ==
    /\ last.op = "TaskCreate"
    /\ last.status = StatusCreated
    /\ ~last.explicit
    /\ \E c \in columns : Cardinality(GetByColumnID(c.id)) >= 2


ReorderStarts(r) ==
    reqs[r].pc = "idle" /\ reqs'[r].op = "ReorderColumns"

Unknown(boardID, updates) ==
    \E i \in 1..Len(updates) :
        \/ ColumnGetByID(updates[i].id) = NoColumn
        \/ ColumnGetByID(updates[i].id).board_id # boardID

\* C18: a bulk reorder that names a column which does not exist or which
\* belongs to another board is refused and changes no position; any other
\* reorder changes positions only at its commit, where every update of the
\* request is applied at once, and changes nothing when it fails.
ReorderAllOrNothing ==
    [][\A r \in Slots :
          /\ (ReorderStarts(r) /\ Unknown(reqs'[r].board, reqs'[r].updates))
                 => /\ reqs'[r].pc = "done"
                    /\ reqs'[r].status \in {StatusBadRequest, StatusForbidden}
                    /\ columns' = columns
          /\ (reqs[r].op = "ReorderColumns" /\ reqs'[r] # reqs[r])
                 => IF reqs'[r].status = StatusOK
                    THEN columns' = RepoReorderColumns(columns, reqs[r].updates)
                    ELSE columns' = columns]_vars

\* a reorder that named a column of its board and a column of another
\* board was refused
ReorderRefused ==
    \E r \in Slots :
        /\ reqs[r].op = "ReorderColumns"
        /\ reqs[r].pc = "done"
        /\ reqs[r].status = StatusBadRequest
        /\ \E i, j \in 1..Len(reqs[r].updates) :
               /\ ColumnGetByID(reqs[r].updates[i].id).board_id = reqs[r].board
               /\ ColumnGetByID(reqs[r].updates[j].id) # NoColumn
               /\ ColumnGetByID(reqs[r].updates[j].id).board_id # reqs[r].board


\* C19: a bulk reorder that succeeds leaves the positions of the N columns
\* of its board a permutation of 0..N-1, so a request that omits columns of
\* the board or assigns duplicate or out-of-range positions does not
\* succeed.
ReorderYieldsPermutation ==
    [][\A r \in Slots :
          (/\ reqs[r].op = "ReorderColumns"
           /\ reqs[r].pc = "commit"
           /\ reqs'[r].status = StatusOK)
              => LET after == {c \in columns' : c.board_id = reqs[r].board}
                 IN /\ {c.position : c \in after} = 0..(Cardinality(after) - 1)
                    /\ \A c, d \in after : c.position = d.position => c = d]_vars


\* C20: attaching a label to a task that already carries it answers without
\* an error and leaves the one association row there was; detaching a
\* label the task does not carry answers without an error and changes no
\* row; no task ever carries two rows for one label.
LabelIdempotent ==
    [][/\ (last'.op = "TaskAddLabel" /\ last'.attached)
              => /\ last'.status # StatusInternalServerError
                 /\ task_labels' = task_labels
                 /\ Cardinality({tl \in task_labels' :
                        /\ tl.task_id = last'.task
                        /\ tl.label_id = last'.label}) = 1
       /\ (last'.op = "TaskRemoveLabel" /\ ~last'.attached)
              => /\ last'.status # StatusInternalServerError
                 /\ task_labels' = task_labels
       /\ \A a, b \in task_labels' :
              (a.task_id = b.task_id /\ a.label_id = b.label_id) => a = b]_vars

\* a label was attached to a task that carried it already, and the request
\* was served
AttachedTwice ==
    /\ last.op = "TaskAddLabel"
    /\ last.attached
    /\ last.status = StatusOK
    /\ RowsOf(last.task, last.label) # {}


\* C21: every association of task_labels links a task and a label of the
\* same board: an attach of a label of another board than the board of the
\* task's column creates no row.
LabelsOfSameBoard ==
    \A tl \in task_labels :
        \A t \in tasks, l \in labels :
            (t.id = tl.task_id /\ l.id = tl.label_id)
                => ColumnGetByID(t.column_id).board_id = l.board_id


\* the request arriving in slot r names an existing task and an existing
\* target column of another board than the board of the task's column
CrossBoard(r) ==
    /\ reqs[r].pc = "idle"
    /\ reqs'[r].op \in {"TaskMove", "TaskUpdate"}
    /\ TaskGetByID(reqs'[r].task) # NoTask
    /\ ColumnGetByID(reqs'[r].column) # NoColumn
    /\ ColumnGetByID(reqs'[r].column).board_id
           # ColumnGetByID(TaskGetByID(reqs'[r].task).column_id).board_id

\* C22: a task move or task update whose target column is of another board
\* than the task's column is answered at once with a validation error (or
\* a denial), never a server error, and changes no task.
CrossBoardMoveRejected ==
    [][\A r \in Slots :
          CrossBoard(r)
              => /\ reqs'[r].pc = "done"
                 /\ reqs'[r].status \in {StatusBadRequest, StatusForbidden}
                 /\ tasks' = tasks]_vars

\* a move with a valid position to a column of another board was refused
\* with 400
CrossBoardMoveRefused ==
    \E r \in Slots :
        /\ reqs[r].op = "TaskMove"
        /\ reqs[r].pc = "done"
        /\ reqs[r].status = StatusBadRequest
        /\ reqs[r].position > 0
        /\ TaskGetByID(reqs[r].task) # NoTask
        /\ ColumnGetByID(reqs[r].column) # NoColumn
        /\ ColumnGetByID(reqs[r].column).board_id
               # ColumnGetByID(TaskGetByID(reqs[r].task).column_id).board_id


\* C23: a ShareBoard or RemoveShare request on an existing board by a
\* principal other than its owner, an editor of the board included, is
\* answered Forbidden and leaves board_shares unchanged.
OnlyOwnerShares ==
    [][(/\ last'.op \in {"ShareBoard", "RemoveShare"}
        /\ \E b \in boards : b.id = last'.board
        /\ last'.principal # OwnerOf(last'.board))
           => /\ last'.status = StatusForbidden
              /\ shares' = shares]_vars

\* an editor of the board asked to share it and was refused
EditorShareRefused ==
    /\ last.op = "ShareBoard"
    /\ last.status = StatusForbidden
    /\ \E s \in shares : /\ s.board_id = last.board
                         /\ s.user_id = last.principal
                         /\ s.role = RoleEditor


\* C27: no board_shares row names the owner of its board as the shared
\* user: a ShareBoard request by the owner whose email resolves to the
\* owner is answered with a validation error and leaves board_shares
\* unchanged.
OwnerNeverShared ==
    [][/\ \A s \in shares' : s.user_id # OwnerOf(s.board_id)
       /\ (/\ last'.op = "ShareBoard"
           /\ \E b \in boards : b.id = last'.board
           /\ last'.principal = OwnerOf(last'.board)
           /\ last'.target = last'.principal)
              => /\ last'.status = StatusBadRequest
                 /\ shares' = shares]_vars

\* the owner asked to share the board with themself, with a valid role, and
\* was refused
SelfShareRefused ==
    /\ last.op = "ShareBoard"
    /\ last.role \in Roles
    /\ last.target = last.principal
    /\ \E b \in boards : b.id = last.board /\ b.owner_id = last.principal
    /\ last.status = StatusBadRequest


\* C24: when the task is gone at the moment the move or the delete
\* executes, the caller is told NotFound, not a generic failure.
MissingTaskNotFound ==
    [][\A r \in Slots :
          (/\ MoveTaskFirst(r) \/ TaskDeleteExec(r)
           /\ TaskGetByID(reqs[r].task) = NoTask)
              => reqs'[r].status = StatusNotFound]_vars


\* C25: a board-scoped request naming a board that does not exist is
\* answered NotFound, never Forbidden.
MissingBoardNotFound ==
    [][(/\ last'.op \in {"ColumnCreate", "ReorderColumns"}
        /\ \A b \in boards : b.id # last'.board)
           => last'.status = StatusNotFound]_vars


\* the query of CheckAccess that fault makes fail is one the move of task
\* taskID by u executes
AccessCheckFails(u, taskID, fault) ==
    LET boardID == ColumnGetByID(TaskGetByID(taskID).column_id).board_id
    IN /\ TaskGetByID(taskID) # NoTask
       /\ \/ fault = 4
          \/ fault = 5 /\ \A b \in boards : b.id = boardID => b.owner_id # u

\* C26: when a query of the access check fails, CheckAccess reports an
\* error, never a plain denial, and the handler answers with a server
\* error, not Forbidden, and changes nothing.
AccessErrorNotDenial ==
    [][/\ \A b \in boards, u \in UserIds, role \in Roles, fail \in 1..2 :
              LET access == CheckAccess(b.id, u, role, fail)
              IN /\ access.err => ~access.ok
                 /\ (fail = 1 \/ b.owner_id # u) => access.err
       /\ (/\ last'.op = "TaskMove"
           /\ AccessCheckFails(last'.principal, last'.task, last'.fault))
              => /\ last'.status = StatusInternalServerError
                 /\ tasks' = tasks]_vars

\* a move by an editor met a failing share query and was answered 500
AccessCheckFailed ==
    /\ last.op = "TaskMove"
    /\ last.fault = 5
    /\ TaskGetByID(last.task) # NoTask
    /\ last.principal # OwnerOf(ColumnGetByID(TaskGetByID(last.task).column_id).board_id)
    /\ last.status = StatusInternalServerError


\* a token no principal can be resolved from
BadToken(token) ==
    token.kind \in {"none", "malformed", "expired"} \/ token.sub = Nil

FindByEmailUserOrError ==
    \A email \in UserIds, fail \in BOOLEAN :
        LET found == FindByEmail(email, fail)
        IN /\ found.user # Nil => ~found.err
           /\ (~fail /\ email \notin users) => (found.user = Nil /\ ~found.err)
           /\ fail => (found.user = Nil /\ found.err)


\* u is the owner of the board or holds an editor share on it
OwnerOrEditor(u, boardID) ==
    \/ \E b \in boards : b.id = boardID /\ b.owner_id = u
    \/ \E s \in shares : /\ s.board_id = boardID
                         /\ s.user_id = u
                         /\ s.role = RoleEditor

\* C30: a request changes the tasks or the label associations of a board
\* only if its principal is the owner of the board or holds an editor share
\* on it; a request of a viewer or of a stranger changes nothing, also
\* when it deletes a task that principal created.
MutationNeedsEditor ==
    [][/\ \A t \in (tasks \ tasks') \cup (tasks' \ tasks) :
              OwnerOrEditor(last'.principal,
                            ColumnGetByID(t.column_id).board_id)
       /\ \A tl \in (task_labels \ task_labels') \cup (task_labels' \ task_labels) :
              OwnerOrEditor(last'.principal,
                            ColumnGetByID(TaskGetByID(tl.task_id).column_id).board_id)]_vars

\* C31: a served column update that changes the column's position
\* re-sequences the siblings: every sibling column lying between the old and
\* the new position is shifted, the update is not a plain overwrite of the
\* one position field.
ColumnUpdateResequences ==
    [][(/\ last'.op = "ColumnUpdate"
        /\ last'.status = StatusOK)
       => \A c \in columns :
            (/\ c.id = last'.id
             /\ ColumnGetByID(c.id)'.position # c.position)
            => \A d \in columns :
                 (/\ d.board_id = c.board_id
                  /\ d.id # c.id
                  /\ Max({c.position, ColumnGetByID(c.id)'.position})
                         >= d.position
                  /\ d.position >= IF c.position
                                        < ColumnGetByID(c.id)'.position
                                   THEN c.position
                                   ELSE ColumnGetByID(c.id)'.position)
                 => ColumnGetByID(d.id)'.position # d.position]_vars

PositionsInRange(ts) ==
    \A t \in ts :
        /\ 0 <= t.position
        /\ t.position < Cardinality({o \in ts : o.column_id = t.column_id})

\* C32: a served task move, through the move endpoint or through the task
\* update, taken from a state where every task's position p satisfies
\* 0 <= p < number of tasks of its column, leads to a state where every
\* task's position satisfies it again.
MoveKeepsPositionsInRange ==
    [][(/\ last'.op \in {"TaskMove", "TaskUpdate"}
        /\ last'.status = StatusOK
        /\ PositionsInRange(tasks))
       => PositionsInRange(tasks')]_vars

\* C33: position 0 is a valid target of a task move: a move of an existing
\* task to position 0 of its own column is not rejected by request
\* validation (it is not answered 400).
MoveToFrontAccepted ==
    [][\A t \in tasks :
           TaskMove(Collaborator, t.id, t.column_id, 0, 0)
           => last'.status # StatusBadRequest]_vars

\* C34: a column create whose request carries the position p >= 0 (p = 0
\* included; the handler binds the field into an int, so a request that
\* carries 0 reaches it as 0) stores the new column at exactly position p.
ExplicitPositionStored ==
    (/\ last.op = "ColumnCreate"
     /\ last.status = StatusCreated)
    => ColumnGetByID(last.id).position = last.position

\* C35: two task creates without explicit position, served concurrently in
\* the same column and both answered 201, are stored at two different
\* positions.
ConcurrentAppendsDiffer ==
    \A r1 \in Slots, r2 \in Slots :
        (/\ r1 # r2
         /\ reqs[r1].op = "TaskCreate" /\ reqs[r2].op = "TaskCreate"
         /\ reqs[r1].stmt = "GetByColumnID" /\ reqs[r2].stmt = "GetByColumnID"
         /\ reqs[r1].status = StatusCreated /\ reqs[r2].status = StatusCreated
         /\ reqs[r1].column = reqs[r2].column
         /\ TaskGetByID(reqs[r1].task) # NoTask
         /\ TaskGetByID(reqs[r2].task) # NoTask)
        => TaskGetByID(reqs[r1].task).position
               # TaskGetByID(reqs[r2].task).position

\* C36: in every reachable state every column belongs to an existing board,
\* every task to an existing column, every label and every share to an
\* existing board, and every task-label row to an existing task and an
\* existing label: a delete of a board, column, task or label takes
\* everything that depends on it along.
NoOrphans ==
    /\ \A c \in columns : \E b \in boards : b.id = c.board_id
    /\ \A t \in tasks : \E c \in columns : c.id = t.column_id
    /\ \A l \in labels : \E b \in boards : b.id = l.board_id
    /\ \A s \in shares : \E b \in boards : b.id = s.board_id
    /\ \A tl \in task_labels : Referenced(tl.task_id, tl.label_id)

AttachedLabelDeleted ==
    /\ last.op = "LabelDelete"
    /\ last.status = StatusOK
    /\ last.attached
    /\ LabelGetByID(last.label) = NoLabel

\* C37: whenever a task has an assignee, the assignee is the owner of, or
\* holds a share on, the board that contains the task.
AssigneeHasAccess ==
    \A t \in tasks :
        t.assigned_to # Nil
        => LET boardID == ColumnGetByID(t.column_id).board_id
           IN \/ GetByID(boardID).owner_id = t.assigned_to
              \/ SharesOf(boardID, t.assigned_to) # {}

\* C38: every move request that has started eventually finishes, with its
\* transaction committed or rolled back: no two move transactions wait on
\* each other forever.
MovesTerminate ==
    \A r \in Slots : InFlight(r) ~> (reqs[r].pc = "done")

MovesDeadlocked ==
    \E r \in Slots, o \in Slots :
        /\ r # o
        /\ reqs[r].op = "TaskMove" /\ reqs[o].op = "TaskMove"
        /\ WaitsFor(r, o)
        /\ WaitsFor(o, r)

\* C39: a served task update that changes the task's column or position
\* also persists the title given in the same request: afterwards the stored
\* task has the requested title.
UpdatePersistsTitle ==
    [][\A u \in UserIds, t \in tasks, c \in ColumnIds,
          hasPosition \in BOOLEAN, pos \in Positions :
           (/\ hasPosition \/ pos = 0
            /\ TaskUpdate(u, t.id, c, "b", hasPosition, pos, 0)
            /\ last'.status = StatusOK
            /\ \/ c # t.column_id
               \/ hasPosition /\ pos # t.position)
           => TaskGetByID(t.id)'.title = "b"]_vars

\* C40: a task create answered with an error status has persisted no task:
\* the set of tasks is the same as before the request.
FailedCreatePersistsNothing ==
    [][(/\ last'.op = "TaskCreate"
        /\ last'.status # StatusCreated)
       => tasks' = tasks]_vars

====
